---- MODULE Spec2Model ----
(***************************************************************************)
(* A model of the limit order book (src/src/lob), the market-making agent  *)
(* (src/src/strategies/market_maker.py), the order-flow sampler            *)
(* (src/src/sim/arrivals.py) and the event-driven simulator                *)
(* (src/src/sim/engine.py).                                                *)
(*                                                                         *)
(* Prices are integers in units of 0.001, a tenth of the default tick of   *)
(* 0.01: every resting price is a multiple of the tick, a mid price a      *)
(* multiple of half a tick, the inventory skew 0.002 is two units.  Order  *)
(* ids "ORD-n" are the integers n.  Money amounts that the code divides    *)
(* (the average entry price, the realized P&L) are exact rationals.        *)
(* Every draw of the random generator is an input of the action that       *)
(* consumes it.                                                            *)
(***************************************************************************)
EXTENDS Integers, Sequences, FiniteSets, TLC

VARIABLES
    book,          \* LimitOrderBook: _bids, _asks, _bid_prices, _ask_prices, _order_index
    factory,       \* OrderFactory: the next value of its counter
    flow,          \* OrderFlowModel: _trend, _signal
    market_maker,  \* MarketMaker
    now,           \* EventDrivenSimulator.now, in units of 0.05 s
    _seq,          \* the sequence number of the next event scheduled
    _events,       \* the heap of events
    _event_count,
    _last_mm_refresh_event,
    trades,
    snapshots,
    _last_mid,
    _fundamental_price,
    config,        \* SimulatorConfig
    call,          \* the latest call or step: its arguments, its result, what it did
    pc             \* where the caller stands

(***************************************************************************)
(* lob/types.py                                                            *)
(***************************************************************************)
\* Optional[...] = None: no price is a negative integer
None == -1

BID == "BID"

ASK == "ASK"

LIMIT == "LIMIT"

MARKET == "MARKET"

opposite(side) == IF side = BID THEN ASK ELSE BID

OrderValidAnyQty(order_type, qty, price) == ~(order_type = LIMIT /\ price = None)

\* Order.__post_init__: the two construction checks
OrderValid(order_type, qty, price) ==
    /\ ~(qty <= 0)
    /\ ~(order_type = LIMIT /\ price = None)

Order(order_id, timestamp, side, order_type, qty, price, owner) ==
    [order_id |-> order_id, timestamp |-> timestamp, side |-> side,
     order_type |-> order_type, qty |-> qty, price |-> price, owner |-> owner]

Trade(timestamp, price, qty, taker, maker) ==
    [timestamp |-> timestamp, price |-> price, qty |-> qty,
     taker_order_id |-> taker.order_id, maker_order_id |-> maker.order_id,
     taker_owner |-> taker.owner, maker_owner |-> maker.owner,
     taker_side |-> taker.side]

(***************************************************************************)
(* lob/orders.py                                                           *)
(***************************************************************************)
\* OrderFactory(prefix="ORD"): count(start) with start = 1
FactoryStart == 1

\* OrderFactory.limit: the order built with the next id
FactoryLimit(f, timestamp, side, price, qty, owner) ==
    Order(f, timestamp, side, LIMIT, qty, price, owner)

\* OrderFactory.market: no price
FactoryMarket(f, timestamp, side, qty, owner) ==
    Order(f, timestamp, side, MARKET, qty, None, owner)

\* next(self._counter)
FactoryNext(f) == f + 1

(***************************************************************************)
(* Python containers                                                       *)
(***************************************************************************)
Min(a, b) == IF a < b THEN a ELSE b

Max(a, b) == IF a > b THEN a ELSE b

Abs(a) == IF a < 0 THEN -a ELSE a

\* del seq[i] / list.pop(i), i counted from 1
RemoveAt(seq, i) == SubSeq(seq, 1, i - 1) \o SubSeq(seq, i + 1, Len(seq))

\* list.insert(i, x) before position i, i counted from 1
InsertAt(seq, i, x) == SubSeq(seq, 1, i - 1) \o <<x>> \o SubSeq(seq, i, Len(seq))

RECURSIVE DictOver(_, _)
\* the items of a dict under the keys of a set
DictOver(d, keys) ==
    IF keys = {} THEN <<>>
    ELSE LET k == CHOOSE x \in keys : TRUE IN (k :> d[k]) @@ DictOver(d, keys \ {k})

\* dict.pop(key, None) on a dict held as a function
DictPop(d, key) == DictOver(d, (DOMAIN d) \ {key})

\* d[key] = value on a dict held as a function
DictSet(d, key, value) == (key :> value) @@ d

RECURSIVE BisectLeftFrom(_, _, _, _)
\* bisect.bisect_left: lo, hi are 0-based as in the library
BisectLeftFrom(a, x, lo, hi) ==
    IF lo < hi
    THEN LET m == (lo + hi) \div 2 IN
         IF a[m + 1] < x THEN BisectLeftFrom(a, x, m + 1, hi)
                         ELSE BisectLeftFrom(a, x, lo, m)
    ELSE lo

bisect_left(a, x) == BisectLeftFrom(a, x, 0, Len(a))

RECURSIVE BisectRightFrom(_, _, _, _)
BisectRightFrom(a, x, lo, hi) ==
    IF lo < hi
    THEN LET m == (lo + hi) \div 2 IN
         IF x < a[m + 1] THEN BisectRightFrom(a, x, lo, m)
                         ELSE BisectRightFrom(a, x, m + 1, hi)
    ELSE lo

\* bisect.insort: insert after the last element <= x
insort(a, x) == InsertAt(a, BisectRightFrom(a, x, 0, Len(a)) + 1, x)

RECURSIVE SumQty(_)
\* sum(order.qty for order in queue)
SumQty(queue) == IF Len(queue) = 0 THEN 0 ELSE Head(queue).qty + SumQty(Tail(queue))

(***************************************************************************)
(* lob/book.py: LimitOrderBook                                             *)
(*                                                                         *)
(* _bids and _asks are dicts price -> deque of orders.  _order_index is a  *)
(* dict in insertion order, held as the sequence of its entries; each      *)
(* entry's order is the object that sits in the queue, so a change of a    *)
(* maker's qty is a change of both.                                        *)
(***************************************************************************)
EmptyBook ==
    [_bids |-> <<>>, _asks |-> <<>>, _bid_prices |-> <<>>, _ask_prices |-> <<>>,
     _order_index |-> <<>>]

best_bid(b) == IF Len(b._bid_prices) > 0 THEN b._bid_prices[Len(b._bid_prices)] ELSE None

\* the highest ask taken as the best
best_ask_highest(b) ==
    IF Len(b._ask_prices) > 0 THEN b._ask_prices[Len(b._ask_prices)] ELSE None

best_ask(b) == IF Len(b._ask_prices) > 0 THEN b._ask_prices[1] ELSE None

mid_price(b) ==
    IF best_bid(b) = None \/ best_ask(b) = None THEN None
    ELSE (best_bid(b) + best_ask(b)) \div 2

spread(b) ==
    IF best_bid(b) = None \/ best_ask(b) = None THEN None
    ELSE best_ask(b) - best_bid(b)

top_depth(b) ==
    <<IF best_bid(b) # None THEN SumQty(b._bids[best_bid(b)]) ELSE 0,
      IF best_ask(b) # None THEN SumQty(b._asks[best_ask(b)]) ELSE 0>>

\* the position of order_id in the id index, 0 when it is not a key
IndexPos(b, order_id) ==
    IF \E i \in 1..Len(b._order_index) : b._order_index[i].order_id = order_id
    THEN CHOOSE i \in 1..Len(b._order_index) : b._order_index[i].order_id = order_id
    ELSE 0

\* self._order_index.pop(order_id, None)
IndexPop(b, order_id) ==
    IF IndexPos(b, order_id) = 0 THEN b._order_index
    ELSE RemoveAt(b._order_index, IndexPos(b, order_id))

order_qty(b, order_id) ==
    IF IndexPos(b, order_id) = 0 THEN None
    ELSE b._order_index[IndexPos(b, order_id)].order.qty

\* the filter on the owner left out: every id of the index
open_orders_any_owner(b, owner) ==
    [i \in 1..Len(b._order_index) |-> b._order_index[i].order_id]

\* open_orders(owner): the ids in the index's order, of that owner
open_orders(b, owner) ==
    LET RECURSIVE Ids(_)
        Ids(i) == IF i > Len(b._order_index) THEN <<>>
                  ELSE (IF b._order_index[i].order.owner = owner
                        THEN <<b._order_index[i].order_id>> ELSE <<>>) \o Ids(i + 1)
    IN Ids(1)

\* open_orders(): every id
open_orders_all(b) == [i \in 1..Len(b._order_index) |-> b._order_index[i].order_id]

\* the price leaves the side's index and its emptied queue stays in the dict
_remove_price_level_keep_queue(b, side, price) ==
    LET levels == IF side = BID THEN b._bid_prices ELSE b._ask_prices
        idx == bisect_left(levels, price)
        popped == IF 0 <= idx /\ idx < Len(levels) /\ levels[idx + 1] = price
                  THEN RemoveAt(levels, idx + 1) ELSE levels
    IN IF side = BID THEN [b EXCEPT !._bid_prices = popped]
                     ELSE [b EXCEPT !._ask_prices = popped]

_remove_price_level(b, side, price) ==
    LET levels == IF side = BID THEN b._bid_prices ELSE b._ask_prices
        idx == bisect_left(levels, price)
        popped == IF 0 <= idx /\ idx < Len(levels) /\ levels[idx + 1] = price
                  THEN RemoveAt(levels, idx + 1) ELSE levels
    IN IF side = BID
       THEN [b EXCEPT !._bids = DictPop(b._bids, price), !._bid_prices = popped]
       ELSE [b EXCEPT !._asks = DictPop(b._asks, price), !._ask_prices = popped]

\* _is_marketable with strict comparisons: an order at the opposing best price rests
_is_marketable_strict(b, order) ==
    IF order.order_type = MARKET THEN TRUE
    ELSE IF order.side = BID /\ best_ask(b) # None /\ order.price # None
         THEN order.price > best_ask(b)
    ELSE IF order.side = ASK /\ best_bid(b) # None /\ order.price # None
         THEN order.price < best_bid(b)
    ELSE FALSE

_is_marketable(b, order) ==
    IF order.order_type = MARKET THEN TRUE
    ELSE IF order.side = BID /\ best_ask(b) # None /\ order.price # None
         THEN order.price >= best_ask(b)
    ELSE IF order.side = ASK /\ best_bid(b) # None /\ order.price # None
         THEN order.price <= best_bid(b)
    ELSE FALSE

\* the entry of the id index as a copy taken when the order was added
IndexSetQtyCopy(index, order_id, qty) == index

\* the entry of the id index follows its order object
IndexSetQty(index, order_id, qty) ==
    IF \E i \in 1..Len(index) : index[i].order_id = order_id
    THEN [index EXCEPT ![CHOOSE i \in 1..Len(index) : index[i].order_id = order_id].order.qty
                           = qty]
    ELSE index

\* the fill taken as the maker's whole quantity
FillQtyMaker(taker, maker) == maker.qty

\* fill_qty = min(taker.qty, maker.qty)
FillQty(taker, maker) == Min(taker.qty, maker.qty)

\* one turn of the inner loop of _match, lines 136-156: the fill of the queue's head
MatchHead(m, maker_side, best_price) ==
    LET queue == IF maker_side = ASK THEN m.book._asks[best_price] ELSE m.book._bids[best_price]
        maker == queue[1]
        fill_qty == FillQty(m.taker, maker)
        maker2 == [maker EXCEPT !.qty = maker.qty - fill_qty]
        taker2 == [m.taker EXCEPT !.qty = m.taker.qty - fill_qty]
        queue2 == IF maker2.qty = 0 THEN Tail(queue) ELSE <<maker2>> \o Tail(queue)
        index1 == IndexSetQty(m.book._order_index, maker.order_id, maker2.qty)
        b1 == [m.book EXCEPT !._order_index = index1]
        index2 == IF maker2.qty = 0 THEN IndexPop(b1, maker.order_id) ELSE index1
        b2 == IF maker_side = ASK
              THEN [b1 EXCEPT !._asks[best_price] = queue2, !._order_index = index2]
              ELSE [b1 EXCEPT !._bids[best_price] = queue2, !._order_index = index2]
    IN [book |-> b2, taker |-> taker2,
        trades |-> Append(m.trades, Trade(m.taker.timestamp, best_price, fill_qty, m.taker, maker))]

RECURSIVE MatchLevel(_, _, _)
\* the inner loop of _match: while queue and taker.qty > 0
MatchLevel(m, maker_side, best_price) ==
    LET queue == IF maker_side = ASK THEN m.book._asks[best_price] ELSE m.book._bids[best_price]
    IN IF Len(queue) > 0 /\ m.taker.qty > 0
       THEN MatchLevel(MatchHead(m, maker_side, best_price), maker_side, best_price)
       ELSE m

RECURSIVE MatchLoop(_)
\* the outer loop of _match: while taker.qty > 0
MatchLoop(m) ==
    LET taker == m.taker
        best_price == IF taker.side = BID THEN best_ask(m.book) ELSE best_bid(m.book)
        maker_side == opposite(taker.side)
    IN IF ~(taker.qty > 0) THEN m
       ELSE IF best_price = None THEN m
       ELSE IF /\ taker.order_type = LIMIT /\ taker.price # None
               /\ \/ taker.side = BID /\ taker.price < best_price
                  \/ taker.side = ASK /\ taker.price > best_price
            THEN m
       ELSE LET \* lines 158-159: the level is removed once its queue is empty
                Swept(m2) ==
                    LET queue == IF maker_side = ASK THEN m2.book._asks[best_price]
                                                     ELSE m2.book._bids[best_price]
                    IN IF Len(queue) = 0
                       THEN [m2 EXCEPT !.book = _remove_price_level(m2.book, maker_side,
                                                                    best_price)]
                       ELSE m2
            IN MatchLoop(Swept(MatchLevel(m, maker_side, best_price)))

\* _match(taker): the book, the taker as left and the trades
_match(b, taker) == MatchLoop([book |-> b, taker |-> taker, trades |-> <<>>])

\* line 173 left out: the order joins its queue and not the index
IndexPutSkipped(b, order) == b._order_index

\* self._order_index[order.order_id] = (side, price, order)
IndexPut(b, order) ==
    LET entry == [order_id |-> order.order_id, side |-> order.side,
                  price |-> order.price, order |-> order]
    IN IF IndexPos(b, order.order_id) = 0 THEN Append(b._order_index, entry)
       ELSE [b._order_index EXCEPT ![IndexPos(b, order.order_id)] = entry]

\* the order put at the front of its level
QueueAppendLeft(queue, order) == <<order>> \o queue

\* book[order.price].append(order)
QueueAppend(queue, order) == Append(queue, order)

\* _add_resting(order); the caller has a price (line 164 raises without one)
_add_resting(b, order) ==
    LET isbid == order.side = BID
        bk == IF isbid THEN b._bids ELSE b._asks
        levels == IF isbid THEN b._bid_prices ELSE b._ask_prices
        fresh == order.price \notin DOMAIN bk
        bk1 == IF fresh THEN DictSet(bk, order.price, <<>>) ELSE bk
        levels1 == IF fresh THEN insort(levels, order.price) ELSE levels
        bk2 == [bk1 EXCEPT ![order.price] = QueueAppend(bk1[order.price], order)]
        b1 == IF isbid THEN [b EXCEPT !._bids = bk2, !._bid_prices = levels1]
                       ELSE [b EXCEPT !._asks = bk2, !._ask_prices = levels1]
    IN [b1 EXCEPT !._order_index = IndexPut(b, order)]

\* a LIMIT order rests even when filled whole
RestsFilled(order) == order.order_type = LIMIT

\* what is left of any order rests
RestsAnyType(order) == order.qty > 0

\* line 67: what is left of a LIMIT order rests
Rests(order) == order.order_type = LIMIT /\ order.qty > 0

\* add_order(order): the book after it, the trades returned and the order as left
add_order(b, order) ==
    LET \* lines 67-70, m being the book, the order and the trades after lines 63-65
        Rested(m) ==
            [book |-> IF Rests(m.taker) THEN _add_resting(m.book, m.taker) ELSE m.book,
             trades |-> m.trades,
             order |-> m.taker]
    IN Rested(IF order.order_type = MARKET \/ _is_marketable(b, order)
              THEN _match(b, order)
              ELSE [book |-> b, taker |-> order, trades |-> <<>>])

QueuePosFront(queue, order_id) == IF Len(queue) > 0 THEN 1 ELSE 0

\* the first position of order_id in a queue, 0 when the loop of lines 85-89 ends without it
QueuePos(queue, order_id) ==
    IF \E i \in 1..Len(queue) : queue[i].order_id = order_id
    THEN CHOOSE i \in 1..Len(queue) :
            /\ queue[i].order_id = order_id
            /\ \A j \in 1..(i - 1) : queue[j].order_id # order_id
    ELSE 0

\* line 95 left out: a cancelled order keeps its index entry
IndexPopForgotten(b, order_id) == b._order_index

\* line 95: the index entry of the order just taken out of its queue
IndexPopRemoved(b, order_id) == IndexPop(b, order_id)

\* cancel(order_id): the book after it and the value returned
cancel(b, order_id) ==
    LET pos == IndexPos(b, order_id) IN
    IF pos = 0 THEN [book |-> b, ret |-> FALSE]
    ELSE
    LET side == b._order_index[pos].side
        price == b._order_index[pos].price
        bk == IF side = BID THEN b._bids ELSE b._asks
        stale == [b EXCEPT !._order_index = IndexPop(b, order_id)]
    IN IF price \notin DOMAIN bk THEN [book |-> stale, ret |-> FALSE]
       ELSE IF QueuePos(bk[price], order_id) = 0 THEN [book |-> stale, ret |-> FALSE]
       ELSE LET queue2 == RemoveAt(bk[price], QueuePos(bk[price], order_id))
                b1 == IF side = BID THEN [b EXCEPT !._bids[price] = queue2]
                                    ELSE [b EXCEPT !._asks[price] = queue2]
                b2 == [b1 EXCEPT !._order_index = IndexPopRemoved(b1, order_id)]
            IN [book |-> IF Len(queue2) = 0 THEN _remove_price_level(b2, side, price) ELSE b2,
                ret |-> TRUE]

(***************************************************************************)
(* Exact rationals num/den with den > 0, in lowest terms                   *)
(***************************************************************************)
RECURSIVE GCD(_, _)
GCD(a, b) == IF b = 0 THEN a ELSE GCD(b, a % b)

Rat(n, d) == LET g == GCD(Abs(n), d) IN [num |-> n \div g, den |-> d \div g]

RatInt(k) == [num |-> k, den |-> 1]

RatAdd(x, y) == Rat(x.num * y.den + y.num * x.den, x.den * y.den)

RatSub(x, y) == Rat(x.num * y.den - y.num * x.den, x.den * y.den)

RatMulInt(x, k) == Rat(x.num * k, x.den)

RatDivInt(x, k) == Rat(x.num, x.den * k)

(***************************************************************************)
(* strategies/market_maker.py                                              *)
(***************************************************************************)
\* MarketMaker(config, tick_size): the dataclass defaults
NewMarketMaker(mm_config, tick) ==
    [config |-> mm_config, tick_size |-> tick, inventory |-> 0, cash |-> 0,
     initial_cash |-> 0, avg_entry_price |-> RatInt(0), realized_pnl |-> RatInt(0),
     active_order_ids |-> {}, fills |-> <<>>]

\* round(round(value / tick) * tick, 10).  value / tick is a float: where value lies
\* half way between two ticks the quotient falls on either side of .5, and tie (0 or 1)
\* is the side it falls on
RoundToTick(value, tick, tie) ==
    LET q == value \div tick
        r == value % tick
    IN IF 2 * r < tick THEN q * tick
       ELSE IF 2 * r > tick THEN (q + 1) * tick
       ELSE (q + tie) * tick

\* whether rounding value to the tick is a tie
IsTie(value, tick) == 2 * (value % tick) = tick

\* the prices of make_quotes before the crossing check, lines 36-45
QuoteFirst(mm, mid, bb, ba, ties) ==
    LET tick == mm.tick_size
        half_spread == mm.config.half_spread_ticks * tick
        skew == mm.config.inventory_skew * mm.inventory
        bid0 == RoundToTick(mid - half_spread - skew, tick, ties[1])
        ask0 == RoundToTick(mid + half_spread - skew, tick, ties[2])
    IN [bid |-> IF ba # None THEN Min(bid0, RoundToTick(ba - tick, tick, 0)) ELSE bid0,
        ask |-> IF bb # None THEN Max(ask0, RoundToTick(bb + tick, tick, 0)) ELSE ask0]

\* lines 47-49 left out: the clamped prices quoted even when the bid is not below the ask
QuotePricesClamped(mm, mid, bb, ba, ties) == QuoteFirst(mm, mid, bb, ba, ties)

\* the prices of make_quotes, lines 36-49; ties are the sides of the four roundings
\* of a value that may lie half way
QuotePrices(mm, mid, bb, ba, ties) ==
    LET p == QuoteFirst(mm, mid, bb, ba, ties)
        tick == mm.tick_size
    IN IF p.bid >= p.ask
       THEN [bid |-> RoundToTick(mid - tick, tick, ties[3]),
             ask |-> RoundToTick(mid + tick, tick, ties[4])]
       ELSE p

\* make_quotes: the bid and the ask order, built by the factory one after the other
make_quotes(mm, timestamp, mid, bb, ba, f, ties) ==
    LET p == QuotePrices(mm, mid, bb, ba, ties)
    IN <<FactoryLimit(f, timestamp, BID, p.bid, mm.config.quote_qty, "MM"),
         FactoryLimit(FactoryNext(f), timestamp, ASK, p.ask, mm.config.quote_qty, "MM")>>

unrealized_pnl(mm, mid) ==
    IF mm.inventory = 0 THEN RatInt(0)
    ELSE IF mm.inventory > 0
         THEN RatMulInt(RatSub(RatInt(mid), mm.avg_entry_price), mm.inventory)
    ELSE RatMulInt(RatSub(mm.avg_entry_price, RatInt(mid)), Abs(mm.inventory))

total_pnl(mm, mid) == RatAdd(mm.realized_pnl, unrealized_pnl(mm, mid))

mark_to_market(mm, mid) == RatInt(mm.cash + mm.inventory * mid - mm.initial_cash)

\* the profit of a close booked as for a long whatever the position
CloseProfitLong(mm, price, close_qty) ==
    RatMulInt(RatSub(RatInt(price), mm.avg_entry_price), close_qty)

\* lines 111-114: (price - avg) * close_qty for a long, (avg - price) * close_qty for a short
CloseProfit(mm, price, close_qty) ==
    IF mm.inventory > 0
    THEN RatMulInt(RatSub(RatInt(price), mm.avg_entry_price), close_qty)
    ELSE RatMulInt(RatSub(mm.avg_entry_price, RatInt(price)), close_qty)

\* lines 119-120 left out: a position closed whole keeps its average entry price
_update_position_keep_entry(mm, trade_sign, qty, price) ==
    IF mm.inventory = 0
    THEN [mm EXCEPT !.inventory = trade_sign * qty, !.avg_entry_price = RatInt(price)]
    ELSE IF mm.inventory * trade_sign > 0
    THEN LET current_abs == Abs(mm.inventory)
             new_abs == current_abs + qty
         IN [mm EXCEPT
                !.avg_entry_price =
                    RatDivInt(RatAdd(RatMulInt(mm.avg_entry_price, current_abs),
                                     RatInt(price * qty)), new_abs),
                !.inventory = mm.inventory + trade_sign * qty]
    ELSE LET close_qty == Min(Abs(mm.inventory), qty)
             realized == RatAdd(mm.realized_pnl, CloseProfit(mm, price, close_qty))
             inventory1 == mm.inventory + trade_sign * close_qty
             remaining == qty - close_qty
         IN [mm EXCEPT
                !.realized_pnl = realized,
                !.inventory = IF remaining > 0 THEN trade_sign * remaining ELSE inventory1,
                !.avg_entry_price = IF remaining > 0 THEN RatInt(price)
                                    ELSE mm.avg_entry_price]

_update_position(mm, trade_sign, qty, price) ==
    IF mm.inventory = 0
    THEN [mm EXCEPT !.inventory = trade_sign * qty, !.avg_entry_price = RatInt(price)]
    ELSE IF mm.inventory * trade_sign > 0
    THEN LET current_abs == Abs(mm.inventory)
             new_abs == current_abs + qty
         IN [mm EXCEPT
                !.avg_entry_price =
                    RatDivInt(RatAdd(RatMulInt(mm.avg_entry_price, current_abs),
                                     RatInt(price * qty)), new_abs),
                !.inventory = mm.inventory + trade_sign * qty]
    ELSE LET close_qty == Min(Abs(mm.inventory), qty)
             realized == RatAdd(mm.realized_pnl, CloseProfit(mm, price, close_qty))
             inventory1 == mm.inventory + trade_sign * close_qty
             remaining == qty - close_qty
             avg1 == IF inventory1 = 0 THEN RatInt(0) ELSE mm.avg_entry_price
         IN [mm EXCEPT
                !.realized_pnl = realized,
                !.inventory = IF remaining > 0 THEN trade_sign * remaining ELSE inventory1,
                !.avg_entry_price = IF remaining > 0 THEN RatInt(price) ELSE avg1]

_apply_fill(mm, side, price, qty) ==
    LET trade_sign == IF side = BID THEN 1 ELSE -1
        cash_delta == IF side = BID THEN -(price * qty) ELSE price * qty
        \* lines 83-92: the fill recorded once the position is updated
        Recorded(mm2) ==
            [mm2 EXCEPT !.fills = Append(mm2.fills,
                [timestamp |-> None, side |-> side, mm_side |-> trade_sign,
                 price |-> price, qty |-> qty])]
    IN Recorded(_update_position([mm EXCEPT !.cash = mm.cash + cash_delta],
                                 trade_sign, qty, price))

on_trade_taker_only(mm, trade) ==
    IF trade.taker_owner = "MM" THEN _apply_fill(mm, trade.taker_side, trade.price, trade.qty)
    ELSE mm

on_trade(mm, trade) ==
    IF trade.taker_owner = "MM" THEN _apply_fill(mm, trade.taker_side, trade.price, trade.qty)
    ELSE IF trade.maker_owner = "MM"
         THEN _apply_fill(mm, opposite(trade.taker_side), trade.price, trade.qty)
    ELSE mm

(***************************************************************************)
(* sim/arrivals.py: OrderFlowModel.  Probabilities are in percent; a draw  *)
(* u of rng.random() is the percent it falls on, 0 <= u < 100.             *)
(***************************************************************************)
\* next_time: rate <= 0 gives float("inf")
Infinity == -1

isfinite(t) == t # Infinity

\* np.clip / max(lo, min(hi, x))
Clip(x, lo, hi) == Max(lo, Min(hi, x))

\* an inter-arrival time of 0: the next arrival falls on the instant of this one
next_time_same_instant(current_time, rate, dt) ==
    IF rate <= 0 THEN Infinity ELSE current_time

next_time_any_rate(current_time, rate, dt) == current_time + dt

\* next_time(current_time, rate); dt is the draw of rng.exponential(1 / rate)
next_time(current_time, rate, dt) == IF rate <= 0 THEN Infinity ELSE current_time + dt

\* OrderFlowModel.__init__: two draws
NewFlow(u_trend, u_signal) ==
    [_trend |-> IF u_trend < 50 THEN 1 ELSE -1, _signal |-> IF u_signal < 50 THEN 1 ELSE -1]

\* sample_side(is_market): the flow after it and the side
sample_side(fl, fc, is_market, u_trend, u_side) ==
    LET imbalance == Clip(fc.imbalance, -100, 100)
        biased == is_market /\ fc.informed_market_bias > 0
        trend == IF biased /\ u_trend < fc.trend_flip_prob THEN -fl._trend ELSE fl._trend
        p_buy == 50 + imbalance \div 2 + (IF biased THEN fc.informed_market_bias * trend ELSE 0)
    IN [flow |-> [fl EXCEPT !._trend = trend],
        side |-> IF u_side < Clip(p_buy, 1, 99) THEN BID ELSE ASK]

\* sample_limit(mid_price, tick_size)
sample_limit(fl, fc, mid, tick, d) ==
    LET s == sample_side(fl, fc, FALSE, 0, d.u_side)
        marketable == d.u_marketable < fc.marketable_limit_prob
        price == IF s.side = BID
                 THEN (IF marketable THEN mid + tick ELSE mid - d.level * tick)
                 ELSE (IF marketable THEN mid - tick ELSE mid + d.level * tick)
    IN [flow |-> s.flow, side |-> s.side, price |-> RoundToTick(price, tick, d.tie),
        qty |-> d.qty]

\* sample_market()
sample_market(fl, fc, d) ==
    LET s == sample_side(fl, fc, TRUE, d.u_trend, d.u_side)
    IN [flow |-> s.flow, side |-> s.side, qty |-> d.qty]

\* the comparison taken as <=
should_send_informed_inclusive(fc, u) == u <= Clip(fc.p_informed, 0, 100)

\* should_send_informed()
should_send_informed(fc, u) == u < Clip(fc.p_informed, 0, 100)

\* sample_signal(): the flow after it; the signal is its _signal
sample_signal(fl, fc, u_flip) ==
    [fl EXCEPT !._signal = IF u_flip < fc.signal_flip_prob THEN -fl._signal ELSE fl._signal]

\* Python's round() of n / 10 for n >= 0: half to even
RoundTenths(n) ==
    LET q == n \div 10
        r == n % 10
    IN IF r < 5 THEN q ELSE IF r > 5 THEN q + 1 ELSE IF q % 2 = 0 THEN q ELSE q + 1

sample_informed_market_contrarian(fl, fc, d) ==
    LET f1 == sample_signal(fl, fc, d.u_flip)
    IN [flow |-> f1, side |-> IF f1._signal > 0 THEN ASK ELSE BID,
        qty |-> Max(1, RoundTenths(d.qty * fc.informed_qty_mult)),
        signal |-> f1._signal]

\* sample_informed_market(); informed_qty_mult is in tenths
sample_informed_market(fl, fc, d) ==
    LET f1 == sample_signal(fl, fc, d.u_flip)
    IN [flow |-> f1, side |-> IF f1._signal > 0 THEN BID ELSE ASK,
        qty |-> Max(1, RoundTenths(d.qty * fc.informed_qty_mult)),
        signal |-> f1._signal]

sample_exogenous_signal(u) == IF u < 50 THEN 1 ELSE -1

(***************************************************************************)
(* sim/events.py and sim/engine.py.  Time is an integer number of units of  *)
(* 0.05 s.  The simulator is the record s of its fields; s.log is the       *)
(* record of what the step at hand has done so far: the event, the draws   *)
(* read, the orders submitted, the events scheduled, the ids cancelled.    *)
(***************************************************************************)
Event(timestamp, seq, event_type, payload) ==
    [timestamp |-> timestamp, seq |-> seq, event_type |-> event_type, payload |-> payload]

\* an order by timestamp in which the later insertion comes first
EventLessLifo(e1, e2) ==
    \/ e1.timestamp < e2.timestamp
    \/ e1.timestamp = e2.timestamp /\ e1.seq > e2.seq

\* Event's order=True with compare=False on type and payload: (timestamp, seq)
EventLess(e1, e2) ==
    \/ e1.timestamp < e2.timestamp
    \/ e1.timestamp = e2.timestamp /\ e1.seq < e2.seq

\* heapq.heappop's result: the least event of the heap
HeapMin(events) == CHOOSE e \in events : \A o \in events : o = e \/ EventLess(e, o)

PayloadGetDefault(payload, key, default) == default

\* payload.get(key, default)
PayloadGet(payload, key, default) == IF key \in DOMAIN payload THEN payload[key] ELSE default

\* x or y on a float or None
PyOr(x, y) == IF x = None \/ x = 0 THEN y ELSE x

EmptyLog ==
    [op |-> "none", event |-> <<>>, draws |-> <<>>, orders |-> <<>>, scheduled |-> <<>>,
     cancels |-> {}, refresh_calls |-> 0, mm_refreshed |-> FALSE, adapt_applied |-> FALSE,
     quoted |-> <<>>]

\* EventDrivenSimulator.__init__; u_trend and u_signal are the draws of OrderFlowModel's
NewSimulator(cfg, u_trend, u_signal) ==
    [config |-> cfg,
     book |-> EmptyBook,
     factory |-> FactoryStart,
     flow |-> NewFlow(u_trend, u_signal),
     market_maker |-> NewMarketMaker(cfg.market_maker, cfg.tick_size),
     now |-> 0, _seq |-> 0, _events |-> {}, _event_count |-> 0,
     _last_mm_refresh_event |-> 0,
     trades |-> <<>>, snapshots |-> <<>>,
     _last_mid |-> cfg.base_price, _fundamental_price |-> cfg.base_price,
     log |-> EmptyLog]

\* _schedule(event_type, timestamp, payload)
_schedule(s, event_type, timestamp, payload) ==
    IF ~isfinite(timestamp) THEN s
    ELSE LET e == Event(timestamp, s._seq, event_type, payload)
         IN [s EXCEPT !._events = @ \cup {e}, !._seq = @ + 1,
                      !.log.scheduled = Append(@, e)]

RECURSIVE OnTrades(_, _, _)
\* the loop of _process_trades, lines 342-346
OnTrades(mm, ts, i) ==
    IF i > Len(ts) THEN mm
    ELSE LET \* lines 345-346: a fill just recorded takes the trade's timestamp
             Stamped(mm1) ==
                 IF Len(mm1.fills) > Len(mm.fills)
                 THEN [mm1 EXCEPT !.fills[Len(mm1.fills)].timestamp = ts[i].timestamp]
                 ELSE mm1
         IN OnTrades(Stamped(on_trade(mm, ts[i])), ts, i + 1)

_process_trades(s, ts) ==
    IF Len(ts) = 0 THEN s
    ELSE [s EXCEPT !.trades = @ \o ts, !.market_maker = OnTrades(@, ts, 1)]

\* self._process_trades(self.book.add_order(order))
Submit(s, order) ==
    LET \* r is what add_order leaves: the book and the trades
        Processed(r) ==
            _process_trades([s EXCEPT !.book = r.book, !.log.orders = Append(@, order)],
                            r.trades)
    IN Processed(add_order(s.book, order))

RECURSIVE SeedFrom(_, _)
\* the loop of _seed_book from one level on
SeedFrom(s, level) ==
    IF level > s.config.initial_depth_levels THEN s
    ELSE LET base == s.config.base_price
             tick == s.config.tick_size
             bid_order == FactoryLimit(s.factory, 0, BID, base - level * tick,
                                       s.config.initial_depth_qty, "FLOW")
             ask_order == FactoryLimit(FactoryNext(s.factory), 0, ASK, base + level * tick,
                                       s.config.initial_depth_qty, "FLOW")
             s1 == [s EXCEPT !.factory = FactoryNext(FactoryNext(@))]
         IN SeedFrom(Submit(Submit(s1, bid_order), ask_order), level + 1)

\* the seeding that starts two ticks away from the base price
_seed_book_from_two(s) == SeedFrom(s, 2)

\* _seed_book: levels 1 to initial_depth_levels
_seed_book(s) == SeedFrom(s, 1)

\* the loop that stops after the first id it reads
CancelNone(b, ids) == b

CancelFirst(b, ids) == IF Len(ids) = 0 THEN b ELSE cancel(b, Head(ids)).book

RECURSIVE CancelEach(_, _)
\* for order_id in list(active_order_ids): self.book.cancel(order_id)
CancelEach(b, ids) ==
    IF Len(ids) = 0 THEN b ELSE CancelEach(cancel(b, Head(ids)).book, Tail(ids))

\* lines 247-250: one quote submitted, its id tracked when some of it is left
SubmitQuote(s, quote) ==
    LET \* lines 249-250, left being the quote as add_order has left it
        Tracked(s1, left) ==
            IF left.qty > 0
            THEN [s1 EXCEPT !.market_maker.active_order_ids = @ \cup {quote.order_id}]
            ELSE s1
    IN Tracked(Submit(s, quote), add_order(s.book, quote).order)

\* _handle_mm_quote_update; ids is list(active_order_ids), a set of strings read in
\* some order, and ties the sides of make_quotes' roundings
_handle_mm_quote_update(s, ids, ties) ==
    LET \* line 252
        Refreshed(s2) == [s2 EXCEPT !._last_mm_refresh_event = s2._event_count]
        \* lines 235-250, b1 being the book after the cancels of lines 233-234
        Requoted(b1) ==
            LET mid == PyOr(mid_price(b1), s._last_mid)
                quotes == make_quotes(s.market_maker, s.now, mid, best_bid(b1),
                                      best_ask(b1), s.factory, ties)
                s1 == [s EXCEPT !.book = b1, !.market_maker.active_order_ids = {},
                                !.factory = FactoryNext(FactoryNext(@)),
                                !.log.cancels = @ \cup {ids[i] : i \in 1..Len(ids)},
                                !.log.refresh_calls = @ + 1,
                                !.log.quoted = [mid |-> mid, best_bid |-> best_bid(b1),
                                                best_ask |-> best_ask(b1),
                                                bid |-> quotes[1].price,
                                                ask |-> quotes[2].price]]
            IN SubmitQuote(SubmitQuote(s1, quotes[1]), quotes[2])
    IN Refreshed(Requoted(CancelEach(s.book, ids)))

_handle_limit_arrival(s, d) ==
    LET mid == PyOr(mid_price(s.book), s._last_mid)
        l == sample_limit(s.flow, s.config.flow, mid, s.config.tick_size, d)
        order == FactoryLimit(s.factory, s.now, l.side, l.price, l.qty, "FLOW")
    IN Submit([s EXCEPT !.flow = l.flow, !.factory = FactoryNext(@)], order)

_handle_market_arrival(s, d) ==
    LET fc == s.config.flow
        informed == should_send_informed(fc, d.u_informed)
        m == IF informed THEN sample_informed_market(s.flow, fc, d)
                         ELSE sample_market(s.flow, fc, d)
        owner == IF informed THEN "INFORMED" ELSE "FLOW"
        s1 == IF informed
              THEN _schedule([s EXCEPT !.flow = m.flow], "FUNDAMENTAL_MOVE",
                       s.now + Max(0, fc.toxic_move_delay),
                       [source |-> "informed", signal |-> m.signal,
                        jump_ticks |-> Max(1, fc.toxic_jump_ticks)])
              ELSE [s EXCEPT !.flow = m.flow]
        order == FactoryMarket(s.factory, s.now, m.side, m.qty, owner)
    IN Submit([s1 EXCEPT !.factory = FactoryNext(@)], order)

\* _handle_cancel_arrival; pick is the place rng.choice draws among the candidates
_handle_cancel_arrival(s, d) ==
    LET candidates == open_orders(s.book, "FLOW") IN
    IF Len(candidates) = 0 THEN s
    ELSE [s EXCEPT !.book = cancel(s.book, candidates[d.pick]).book,
                   !.log.cancels = @ \cup {candidates[d.pick]}]

\* the level at the target price counted with the levels before it
_qty_to_force_jump_inclusive(b, tick, signal, jump_ticks) ==
    IF signal > 0
    THEN IF best_ask(b) = None THEN 0
         ELSE LET target == best_ask(b) + jump_ticks * tick
                  RECURSIVE Up(_)
                  Up(i) == IF i > Len(b._ask_prices) THEN 0
                           ELSE IF b._ask_prices[i] <= target
                                THEN SumQty(b._asks[b._ask_prices[i]]) + Up(i + 1)
                           ELSE 0
              IN Up(1)
    ELSE IF best_bid(b) = None THEN 0
         ELSE LET target == best_bid(b) - jump_ticks * tick
                  RECURSIVE Down(_)
                  Down(i) == IF i < 1 THEN 0
                             ELSE IF b._bid_prices[i] >= target
                                  THEN SumQty(b._bids[b._bid_prices[i]]) + Down(i - 1)
                             ELSE 0
              IN Down(Len(b._bid_prices))

\* _qty_to_force_jump(signal, jump_ticks)
_qty_to_force_jump(b, tick, signal, jump_ticks) ==
    IF signal > 0
    THEN IF best_ask(b) = None THEN 0
         ELSE LET target == best_ask(b) + jump_ticks * tick
                  RECURSIVE Up(_)
                  Up(i) == IF i > Len(b._ask_prices) THEN 0
                           ELSE IF b._ask_prices[i] < target
                                THEN SumQty(b._asks[b._ask_prices[i]]) + Up(i + 1)
                           ELSE 0
              IN Up(1)
    ELSE IF best_bid(b) = None THEN 0
         ELSE LET target == best_bid(b) - jump_ticks * tick
                  RECURSIVE Down(_)
                  Down(i) == IF i < 1 THEN 0
                             ELSE IF b._bid_prices[i] > target
                                  THEN SumQty(b._bids[b._bid_prices[i]]) + Down(i - 1)
                             ELSE 0
              IN Down(Len(b._bid_prices))

\* Python's round() of n / 100 for n >= 0: half to even
RoundPercent(n) ==
    LET q == n \div 100
        r == n % 100
    IN IF r < 50 THEN q ELSE IF r > 50 THEN q + 1 ELSE IF q % 2 = 0 THEN q ELSE q + 1

_apply_immediate_fundamental_impact_unguarded(s, signal, jump_ticks, source) ==
    LET base_qty == _qty_to_force_jump(s.book, s.config.tick_size, signal, jump_ticks)
        impact == Clip(s.config.flow.toxic_impact_fraction, 0, 100)
        qty == Min(base_qty, Max(1, RoundPercent(base_qty * impact)))
        side == IF signal > 0 THEN BID ELSE ASK
        owner == IF source = "informed" THEN "LATENT_MOVE" ELSE "FUNDAMENTAL_IMPACT"
        order == FactoryMarket(s.factory, s.now, side, qty, owner)
    IN Submit([s EXCEPT !.factory = FactoryNext(@)], order)

_apply_immediate_fundamental_impact(s, signal, jump_ticks, source) ==
    LET base_qty == _qty_to_force_jump(s.book, s.config.tick_size, signal, jump_ticks)
        impact == Clip(s.config.flow.toxic_impact_fraction, 0, 100)
        qty == Min(base_qty, Max(1, RoundPercent(base_qty * impact)))
        side == IF signal > 0 THEN BID ELSE ASK
        owner == IF source = "informed" THEN "LATENT_MOVE" ELSE "FUNDAMENTAL_IMPACT"
        order == FactoryMarket(s.factory, s.now, side, qty, owner)
    IN IF base_qty <= 0 THEN s
       ELSE IF impact <= 0 THEN s
       ELSE Submit([s EXCEPT !.factory = FactoryNext(@)], order)

\* the jump taken as one tick whatever the payload and the configuration say
_handle_fundamental_move_one_tick(s, payload, d) ==
    LET signal0 == PayloadGet(payload, "signal", sample_exogenous_signal(d.u_exo))
        signal == IF signal0 >= 0 THEN 1 ELSE -1
        jump_ticks == 1
        source == PayloadGet(payload, "source", "unknown")
        s1 == [s EXCEPT !._fundamental_price = @ + signal * jump_ticks * s.config.tick_size]
    IN IF s.config.environment_mode = "v1_control"
       THEN _apply_immediate_fundamental_impact(s1, signal, jump_ticks, source)
       ELSE s1

_handle_fundamental_move_any_mode(s, payload, d) ==
    LET signal0 == PayloadGet(payload, "signal", sample_exogenous_signal(d.u_exo))
        signal == IF signal0 >= 0 THEN 1 ELSE -1
        jump_ticks == Max(1, PayloadGet(payload, "jump_ticks",
                                        s.config.flow.fundamental_jump_ticks))
        source == PayloadGet(payload, "source", "unknown")
        s1 == [s EXCEPT !._fundamental_price = @ + signal * jump_ticks * s.config.tick_size]
    IN _apply_immediate_fundamental_impact(s1, signal, jump_ticks, source)

\* _handle_fundamental_move(payload); the default of payload.get("signal", ...) is
\* evaluated before the lookup, so a draw is made whatever the payload holds
_handle_fundamental_move(s, payload, d) ==
    LET signal0 == PayloadGet(payload, "signal", sample_exogenous_signal(d.u_exo))
        signal == IF signal0 >= 0 THEN 1 ELSE -1
        jump_ticks == Max(1, PayloadGet(payload, "jump_ticks",
                                        s.config.flow.fundamental_jump_ticks))
        source == PayloadGet(payload, "source", "unknown")
        s1 == [s EXCEPT !._fundamental_price = @ + signal * jump_ticks * s.config.tick_size]
    IN IF s.config.environment_mode = "v1_control"
       THEN _apply_immediate_fundamental_impact(s1, signal, jump_ticks, source)
       ELSE s1

\* _schedule_next_exogenous_fundamental_move
_schedule_next_exogenous_fundamental_move(s, d) ==
    LET t == next_time(s.now, s.config.flow.fundamental_rate, d.dt_fund) IN
    IF ~isfinite(t) THEN s
    ELSE _schedule(s, "FUNDAMENTAL_MOVE", t,
                   [source |-> "exogenous", signal |-> sample_exogenous_signal(d.u_next),
                    jump_ticks |-> Max(1, s.config.flow.fundamental_jump_ticks)])

\* abs(gap) < tick on floats: at a gap of one tick the difference of the two prices
\* falls on either side of the tick, and fuzz (0 or 1) is the side
GapBelowTick(gap, tick, fuzz) == IF Abs(gap) = tick THEN fuzz = 1 ELSE Abs(gap) < tick

\* int(abs(gap) / tick) on floats: at a whole number of ticks the quotient falls on
\* either side of it
GapTicks(gap, tick, fuzz) ==
    IF Abs(gap) % tick = 0 THEN Abs(gap) \div tick - fuzz ELSE Abs(gap) \div tick

\* lines 300-301 without the cap: the order takes the whole of the best level
_apply_slow_fundamental_adaptation_uncapped(s, d) ==
    LET tick == s.config.tick_size
        mid == PyOr(mid_price(s.book), s._last_mid)
        gap == s._fundamental_price - mid
        signal == IF gap > 0 THEN 1 ELSE -1
        side == IF signal > 0 THEN BID ELSE ASK
        one_tick_qty == _qty_to_force_jump(s.book, tick, signal, 1)
        qty == Max(1, one_tick_qty)
        order == FactoryMarket(s.factory, s.now, side, qty, "FUND_ADAPT")
    IN IF GapBelowTick(gap, tick, d.fuzz_gap) THEN s
       ELSE IF d.u_adapt >= Clip(s.config.flow.slow_adapt_prob, 0, 100) THEN s
       ELSE IF one_tick_qty <= 0 THEN s
       ELSE [Submit([s EXCEPT !.factory = FactoryNext(@)], order)
                EXCEPT !.log.adapt_applied = TRUE]

\* _apply_slow_fundamental_adaptation: the simulator after it; log.adapt_applied is
\* the value returned
_apply_slow_fundamental_adaptation(s, d) ==
    LET tick == s.config.tick_size
        mid == PyOr(mid_price(s.book), s._last_mid)
        gap == s._fundamental_price - mid
        signal == IF gap > 0 THEN 1 ELSE -1
        side == IF signal > 0 THEN BID ELSE ASK
        one_tick_qty == _qty_to_force_jump(s.book, tick, signal, 1)
        gap_ticks == Max(1, GapTicks(gap, tick, d.fuzz_floor))
        qty_cap == Max(1, s.config.flow.slow_adapt_max_qty) * Min(5, gap_ticks)
        qty == Max(1, Min(one_tick_qty, qty_cap))
        order == FactoryMarket(s.factory, s.now, side, qty, "FUND_ADAPT")
    IN IF GapBelowTick(gap, tick, d.fuzz_gap) THEN s
       ELSE IF d.u_adapt >= Clip(s.config.flow.slow_adapt_prob, 0, 100) THEN s
       ELSE IF one_tick_qty <= 0 THEN s
       ELSE [Submit([s EXCEPT !.factory = FactoryNext(@)], order)
                EXCEPT !.log.adapt_applied = TRUE]

\* _snapshot(event_type)
_snapshot(s, event_type) ==
    LET m == mid_price(s.book)
        mid == IF m # None THEN m ELSE s._last_mid
        mm == s.market_maker
        snap == [timestamp |-> s.now, event_type |-> event_type,
                 event_idx |-> s._event_count,
                 best_bid |-> best_bid(s.book), best_ask |-> best_ask(s.book),
                 mid_price |-> mid,
                 fundamental_price |-> s._fundamental_price,
                 fundamental_gap |-> s._fundamental_price - mid,
                 spread |-> spread(s.book),
                 top_bid_depth |-> top_depth(s.book)[1],
                 top_ask_depth |-> top_depth(s.book)[2],
                 mm_inventory |-> mm.inventory, mm_cash |-> mm.cash,
                 mm_realized_pnl |-> mm.realized_pnl,
                 mm_unrealized_pnl |-> unrealized_pnl(mm, mid),
                 mm_pnl |-> total_pnl(mm, mid),
                 mm_mtm_pnl |-> mark_to_market(mm, mid),
                 events_since_mm_refresh |-> s._event_count - s._last_mm_refresh_event]
    IN [s EXCEPT !._last_mid = mid, !.snapshots = Append(@, snap)]

\* _schedule_initial_events; dts are the five exponential draws in the order made
_schedule_initial_events(s, d) ==
    LET fc == s.config.flow
        s1 == _schedule(s, "LIMIT_ARRIVAL", next_time(0, fc.limit_rate, d.dts[1]), <<>>)
        s2 == _schedule(s1, "MARKET_ARRIVAL", next_time(0, fc.market_rate, d.dts[2]), <<>>)
        s3 == _schedule(s2, "CANCEL_ARRIVAL", next_time(0, fc.cancel_rate, d.dts[3]), <<>>)
        s4 == IF s.config.mm_update_every_k_events <= 0
              THEN _schedule(s3, "MM_QUOTE_UPDATE",
                             next_time(0, s.config.mm_update_rate, d.dts[4]), <<>>)
              ELSE s3
    IN _schedule_next_exogenous_fundamental_move(s4, d)

\* run(), line 59
RunSeed(s) == _seed_book([s EXCEPT !.log = [EmptyLog EXCEPT !.op = "seed"]])

\* run(), lines 61-63
RunSetup(s, d) ==
    LET s0 == [s EXCEPT !.log = [EmptyLog EXCEPT !.op = "setup"]]
        s2 == _handle_mm_quote_update(s0, d.ids, d.ties)
        s3 == _schedule_initial_events(s2, d)
    IN _snapshot(s3, <<"INIT">>)

\* run(), lines 70-105: the clock, the counter and the handler of the event's type
HandleEvent(s, event, d) ==
    LET s0 == [s EXCEPT !.now = event.timestamp, !._event_count = @ + 1,
                        !.log = [EmptyLog EXCEPT !.op = "event", !.event = event]]
        t == event.event_type
        fc == s.config.flow
        \* the next event of the stream scheduled once the handler has left s1
        Rescheduled(s1, rate) == _schedule(s1, t, next_time(s1.now, rate, d.dt), <<>>)
        \* lines 90-91
        NextMove(s1) ==
            IF PayloadGet(event.payload, "source", "None") = "exogenous"
            THEN _schedule_next_exogenous_fundamental_move(s1, d)
            ELSE s1
    IN IF t = "LIMIT_ARRIVAL"
       THEN Rescheduled(_handle_limit_arrival(s0, d), fc.limit_rate)
       ELSE IF t = "MARKET_ARRIVAL"
       THEN Rescheduled(_handle_market_arrival(s0, d), fc.market_rate)
       ELSE IF t = "CANCEL_ARRIVAL"
       THEN Rescheduled(_handle_cancel_arrival(s0, d), fc.cancel_rate)
       ELSE IF t = "FUNDAMENTAL_MOVE"
       THEN NextMove(_handle_fundamental_move(s0, event.payload, d))
       ELSE IF t = "TOXIC_MOVE"
       THEN _handle_fundamental_move(s0, event.payload, d)
       ELSE IF t = "MM_QUOTE_UPDATE"
       THEN IF s.config.mm_update_every_k_events <= 0
            THEN [Rescheduled(_handle_mm_quote_update(s0, d.ids, d.ties),
                              s.config.mm_update_rate)
                     EXCEPT !.log.mm_refreshed = TRUE]
            ELSE s0
       ELSE s0

\* the counter rule without its count: a refresh at every event when K > 0
CounterRefreshEveryEvent(s) == s.config.mm_update_every_k_events > 0

\* the counter rule without its test of K: max(1, K) is the period whatever K
CounterRefreshAnyK(s) ==
    s._event_count % Max(1, s.config.mm_update_every_k_events) = 0

\* whether the counter rule of lines 107-111 refreshes the quotes in this step
CounterRefreshDue(s) ==
    /\ s.config.mm_update_every_k_events > 0
    /\ s._event_count % Max(1, s.config.mm_update_every_k_events) = 0

\* run(), lines 107-111
CounterRefresh(s, d) ==
    IF CounterRefreshDue(s)
    THEN [_handle_mm_quote_update(s, d.ids, d.ties) EXCEPT !.log.mm_refreshed = TRUE]
    ELSE s

\* run(), lines 113-114
SlowAdapt(s, d) ==
    IF s.config.environment_mode = "v2_slow_adapt"
    THEN _apply_slow_fundamental_adaptation(s, d) ELSE s

\* lines 118-119 left out: the adaptation leaves no mark on the tag
TaggedSnapshotRefreshMark(s, event) ==
    LET tag0 == <<event.event_type>>
        tag1 == IF s.log.mm_refreshed THEN Append(tag0, "MM_REFRESH") ELSE tag0
    IN _snapshot(s, tag1)

\* a snapshot only of the events that refreshed the quotes
TaggedSnapshotOnRefresh(s, event) ==
    IF s.log.mm_refreshed THEN _snapshot(s, <<event.event_type, "MM_REFRESH">>) ELSE s

\* run(), lines 72 and 116-120: the snapshot under the event's tag
TaggedSnapshot(s, event) ==
    LET tag0 == <<event.event_type>>
        tag1 == IF s.log.mm_refreshed THEN Append(tag0, "MM_REFRESH") ELSE tag0
        tag2 == IF s.log.adapt_applied THEN Append(tag1, "FUND_ADAPT") ELSE tag1
    IN _snapshot(s, tag2)

\* one turn of the loop of run() for an event within the horizon, lines 70-120
ProcessEvent(s, event, d1, d2, d3) ==
    TaggedSnapshot(SlowAdapt(CounterRefresh(HandleEvent(s, event, d1), d2), d3), event)

(***************************************************************************)
(* Configurations.  Rates matter by their sign only; probabilities are in  *)
(* percent, informed_qty_mult in tenths, times in units of 0.05 s.         *)
(***************************************************************************)
\* OrderFlowConfig()
DefaultFlowConfig ==
    [limit_rate |-> 25, market_rate |-> 12, cancel_rate |-> 8, imbalance |-> 0,
     limit_levels |-> 4, limit_qty_min |-> 1, limit_qty_max |-> 6,
     market_qty_min |-> 1, market_qty_max |-> 4, marketable_limit_prob |-> 10,
     informed_market_bias |-> 0, trend_flip_prob |-> 2,
     p_informed |-> 0, informed_qty_mult |-> 18, signal_flip_prob |-> 2,
     toxic_move_delay |-> 1, toxic_jump_ticks |-> 1, toxic_impact_fraction |-> 100,
     fundamental_rate |-> 0, fundamental_jump_ticks |-> 1,
     slow_adapt_prob |-> 35, slow_adapt_max_qty |-> 4]

\* MarketMakerConfig()
DefaultMarketMakerConfig == [half_spread_ticks |-> 1, quote_qty |-> 3, inventory_skew |-> 2]

\* SimulatorConfig(); end_time 300 s is 6000 units
DefaultConfig ==
    [name |-> "default", end_time |-> 6000, base_price |-> 100000, tick_size |-> 10,
     mm_update_rate |-> 4, mm_update_every_k_events |-> 1,
     environment_mode |-> "v1_control",
     initial_depth_levels |-> 3, initial_depth_qty |-> 20,
     flow |-> DefaultFlowConfig, market_maker |-> DefaultMarketMakerConfig]

\* the default book and agent, with a horizon that closes before the first arrival
SeedConfig == [DefaultConfig EXCEPT !.name = "seed", !.end_time = 0]

\* a thin book, small orders: the three arrival streams, a refresh after every event
ControlConfig ==
    [DefaultConfig EXCEPT
        !.name = "control", !.end_time = 1,
        !.initial_depth_levels = 2, !.initial_depth_qty = 1,
        !.flow.limit_levels = 1, !.flow.limit_qty_max = 2, !.flow.market_qty_max = 3]

\* market orders only, half of them informed; a refresh every second event
InformedConfig ==
    [DefaultConfig EXCEPT
        !.name = "informed", !.end_time = 3, !.mm_update_every_k_events = 2,
        !.initial_depth_levels = 2, !.initial_depth_qty = 1,
        !.flow.limit_rate = 0, !.flow.cancel_rate = 0,
        !.flow.market_qty_max = 2, !.flow.p_informed = 50]

\* the legacy refresh: K = 0, quote updates arrive as events
LegacyConfig ==
    [DefaultConfig EXCEPT
        !.name = "legacy", !.end_time = 2, !.mm_update_every_k_events = 0,
        !.initial_depth_levels = 1, !.initial_depth_qty = 1,
        !.flow.limit_rate = 0, !.flow.cancel_rate = 0, !.flow.market_qty_max = 2]

\* v2: exogenous moves of the fundamental price, the slow adaptation after every event
SlowConfig ==
    [DefaultConfig EXCEPT
        !.name = "slow", !.end_time = 3, !.environment_mode = "v2_slow_adapt",
        !.initial_depth_levels = 2, !.initial_depth_qty = 1,
        !.flow.limit_rate = 0, !.flow.market_rate = 0, !.flow.cancel_rate = 0,
        !.flow.fundamental_rate = 5, !.flow.slow_adapt_max_qty = 1]

\* no arrival at all: the heap is empty from the start
QuietConfig ==
    [DefaultConfig EXCEPT
        !.name = "quiet",
        !.flow.limit_rate = 0, !.flow.market_rate = 0, !.flow.cancel_rate = 0]

\* an agent that quotes no spread of its own (half_spread_ticks = 0) and skews by a
\* tick per unit of inventory, on a book of one order a side
ZeroSpreadConfig ==
    [DefaultConfig EXCEPT
        !.name = "zero_spread", !.end_time = 2,
        !.initial_depth_levels = 1, !.initial_depth_qty = 1,
        !.market_maker.half_spread_ticks = 0, !.market_maker.quote_qty = 1,
        !.market_maker.inventory_skew = 10,
        !.flow.cancel_rate = 0, !.flow.limit_levels = 1,
        !.flow.limit_qty_min = 2, !.flow.limit_qty_max = 2,
        !.flow.market_qty_min = 2, !.flow.market_qty_max = 2]

\* v1: exogenous moves of the fundamental price alone, each with its impact order
ImpactConfig ==
    [DefaultConfig EXCEPT
        !.name = "impact", !.end_time = 3,
        !.initial_depth_levels = 2, !.initial_depth_qty = 1,
        !.flow.limit_rate = 0, !.flow.market_rate = 0, !.flow.cancel_rate = 0,
        !.flow.fundamental_rate = 5]

\* no seeded depth and a refresh every third event: the agent's two quotes are all the
\* book holds when the cancels and the moves of the fundamental price arrive
BareConfig(mode) ==
    [DefaultConfig EXCEPT
        !.name = "bare", !.end_time = 2, !.environment_mode = mode,
        !.mm_update_every_k_events = 3, !.initial_depth_levels = 0,
        !.flow.limit_rate = 0, !.flow.market_rate = 0, !.flow.fundamental_rate = 5]

\* v1 with moves of two ticks and an impact fraction of 1, of a half or of nothing
JumpConfig(fraction) ==
    [ImpactConfig EXCEPT
        !.name = "jump", !.end_time = 2,
        !.flow.fundamental_jump_ticks = 2, !.flow.toxic_impact_fraction = fraction]

Configs ==
    {SeedConfig, ControlConfig, InformedConfig, LegacyConfig, SlowConfig, QuietConfig,
     ZeroSpreadConfig, ImpactConfig, BareConfig("v1_control"), BareConfig("v2_slow_adapt"),
     JumpConfig(100), JumpConfig(50), JumpConfig(0),
     \* v2 with slow_adapt_max_qty = 0, which line 300 takes as 1
     [SlowConfig EXCEPT !.name = "slow_unit", !.end_time = 2,
                        !.flow.slow_adapt_max_qty = 0]}

(***************************************************************************)
(* The draws of the random generator                                       *)
(***************************************************************************)
\* rng.random() in percent: one draw under every threshold in use, one above
RandomDraws == {0, 50}

\* rng.exponential(): one or two units of time
DtDraws == {1, 2}

Dts(rate) == IF rate <= 0 THEN {1} ELSE DtDraws

\* the sides a rounding can fall on
Ties(value, tick) == IF IsTie(value, tick) THEN {0, 1} ELSE {0}

\* the orders in which a set of two ids at most is read
Orderings(ids) ==
    IF ids = {} THEN {<<>>}
    ELSE UNION {IF Cardinality(ids) = 1 THEN {<<a>>}
                ELSE {<<a, b>> : b \in ids \ {a}} : a \in ids}

\* the draws no step reads
NoDraw ==
    [dt |-> 1, dt_fund |-> 1, dts |-> <<1, 1, 1, 1>>, u_next |-> 0, u_exo |-> 0,
     u_informed |-> 50, u_flip |-> 50, u_trend |-> 50, u_side |-> 0, u_marketable |-> 50,
     level |-> 1, tie |-> 0, qty |-> 1, pick |-> 1, ids |-> <<>>, ties |-> <<0, 0, 0, 0>>,
     fuzz_floor |-> 0, fuzz_gap |-> 0, u_adapt |-> 50]

\* the book once the agent's orders are cancelled, whatever the order they are read in
QuoteBook(s) ==
    CancelEach(s.book, CHOOSE ids \in Orderings(s.market_maker.active_order_ids) : TRUE)

\* the sides the four roundings of make_quotes can fall on at a refresh from s
QuoteTies(s) ==
    LET mm == s.market_maker
        tick == s.config.tick_size
        half_spread == mm.config.half_spread_ticks * tick
        skew == mm.config.inventory_skew * mm.inventory
        \* b1 being the book the quotes are made from
        Sides(b1) ==
            LET mid == PyOr(mid_price(b1), s._last_mid)
                Crossed(t1, t2) ==
                    LET p == QuoteFirst(mm, mid, best_bid(b1), best_ask(b1),
                                        <<t1, t2, 0, 0>>)
                    IN p.bid >= p.ask
            IN UNION {IF Crossed(t1, t2)
                      THEN {<<t1, t2, t3, t4>> : t3 \in Ties(mid - tick, tick),
                                                 t4 \in Ties(mid + tick, tick)}
                      ELSE {<<t1, t2, 0, 0>>} :
                      t1 \in Ties(mid - half_spread - skew, tick),
                      t2 \in Ties(mid + half_spread - skew, tick)}
    IN Sides(QuoteBook(s))


\* the draws _schedule_initial_events and the first refresh of run() read
SetupDraws(s) ==
    LET fc == s.config.flow IN
    {[NoDraw EXCEPT !.dts = <<a, b, c, e>>, !.dt_fund = f, !.u_next = u, !.ties = t] :
        a \in Dts(fc.limit_rate), b \in Dts(fc.market_rate), c \in Dts(fc.cancel_rate),
        e \in (IF s.config.mm_update_every_k_events <= 0
               THEN Dts(s.config.mm_update_rate) ELSE {1}),
        f \in Dts(fc.fundamental_rate),
        u \in (IF fc.fundamental_rate > 0 THEN RandomDraws ELSE {0}),
        t \in QuoteTies(s)}

\* the draws the handler of one event reads, and the draw of the next arrival
EventDraws(s, event) ==
    LET fc == s.config.flow
        t == event.event_type
        mid == PyOr(mid_price(s.book), s._last_mid)
    IN IF t = "LIMIT_ARRIVAL"
       THEN {[NoDraw EXCEPT !.u_side = a, !.u_marketable = b, !.level = l, !.qty = q,
                            !.tie = h, !.dt = e] :
                a \in RandomDraws, b \in RandomDraws, l \in 1..fc.limit_levels,
                q \in fc.limit_qty_min..fc.limit_qty_max,
                h \in Ties(mid, s.config.tick_size), e \in Dts(fc.limit_rate)}
       ELSE IF t = "MARKET_ARRIVAL"
       THEN {[NoDraw EXCEPT !.u_informed = a, !.u_flip = b, !.u_trend = c, !.u_side = g,
                            !.qty = q, !.dt = e] :
                a \in RandomDraws,
                b \in (IF fc.p_informed > 0 THEN RandomDraws ELSE {50}),
                c \in (IF fc.informed_market_bias > 0 THEN RandomDraws ELSE {50}),
                g \in RandomDraws,
                q \in fc.market_qty_min..fc.market_qty_max, e \in Dts(fc.market_rate)}
       ELSE IF t = "CANCEL_ARRIVAL"
       THEN {[NoDraw EXCEPT !.pick = k, !.dt = e] :
                k \in 1..Max(1, Len(open_orders(s.book, "FLOW"))),
                e \in Dts(fc.cancel_rate)}
       ELSE IF t = "MM_QUOTE_UPDATE"
       THEN {[NoDraw EXCEPT !.ties = h, !.dt = e] :
                h \in (IF s.config.mm_update_every_k_events <= 0
                       THEN QuoteTies(s) ELSE {NoDraw.ties}),
                e \in Dts(s.config.mm_update_rate)}
       ELSE {[NoDraw EXCEPT !.u_exo = a, !.dt_fund = e, !.u_next = u] :
                a \in (IF "signal" \in DOMAIN event.payload THEN {0} ELSE RandomDraws),
                e \in Dts(fc.fundamental_rate),
                u \in (IF fc.fundamental_rate > 0 THEN RandomDraws ELSE {0})}

\* the sides of the roundings of the refresh the counter rule makes from s
RefreshTies(s) == IF CounterRefreshDue(s) THEN QuoteTies(s) ELSE {NoDraw.ties}

\* the draws the slow adaptation reads from s
AdaptDraws(s) ==
    LET tick == s.config.tick_size
        gap == Abs(s._fundamental_price - PyOr(mid_price(s.book), s._last_mid))
    IN IF s.config.environment_mode # "v2_slow_adapt" THEN {NoDraw}
       ELSE {[NoDraw EXCEPT !.fuzz_gap = a, !.fuzz_floor = b, !.u_adapt = u] :
                a \in (IF gap = tick THEN {0, 1} ELSE {0}),
                b \in (IF gap % tick = 0 /\ gap >= 2 * tick THEN {0, 1} ELSE {0}),
                u \in RandomDraws}

(***************************************************************************)
(* The run of the simulator, a turn of the loop of run() at a time         *)
(***************************************************************************)
\* the events one run handles
MaxEvents == 3

\* the simulator as the record the operators above work on
Sim ==
    [config |-> config, book |-> book, factory |-> factory, flow |-> flow,
     market_maker |-> market_maker, now |-> now, _seq |-> _seq, _events |-> _events,
     _event_count |-> _event_count, _last_mm_refresh_event |-> _last_mm_refresh_event,
     trades |-> trades, snapshots |-> snapshots, _last_mid |-> _last_mid,
     _fundamental_price |-> _fundamental_price, log |-> call]

SimBecomes(s) ==
    /\ config' = s.config
    /\ book' = s.book
    /\ factory' = s.factory
    /\ flow' = s.flow
    /\ market_maker' = s.market_maker
    /\ now' = s.now
    /\ _seq' = s._seq
    /\ _events' = s._events
    /\ _event_count' = s._event_count
    /\ _last_mm_refresh_event' = s._last_mm_refresh_event
    /\ trades' = s.trades
    /\ snapshots' = s.snapshots
    /\ _last_mid' = s._last_mid
    /\ _fundamental_price' = s._fundamental_price
    /\ call' = s.log

\* an event at end_time itself taken as beyond the horizon
ExpiredInclusive(event, end_time) == event.timestamp >= end_time

\* line 67: event.timestamp > self.config.end_time
Expired(event, end_time) == event.timestamp > end_time

\* heapq.heappop(self._events)
Popped(s, event) == [s EXCEPT !._events = @ \ {event}]

\* one turn of the loop of run(), lines 65-120, whatever the event; the simulator
\* that has left the loop stays as it is
LoopTurn(s, d1, d2, d3) ==
    IF s._events = {} THEN s
    ELSE LET event == HeapMin(s._events)
             s0 == Popped(s, event)
         IN IF Expired(event, s.config.end_time) THEN s0
            ELSE ProcessEvent(s0, event, d1, d2, d3)

\* the simulator with the draws of the step written in its record
Drawn(s, d1, d2, d3) == [s EXCEPT !.log.draws = <<d1, d2, d3>>]

\* the variables take the fields of a simulator s
SimIs(s) ==
    /\ config = s.config
    /\ book = s.book
    /\ factory = s.factory
    /\ flow = s.flow
    /\ market_maker = s.market_maker
    /\ now = s.now
    /\ _seq = s._seq
    /\ _events = s._events
    /\ _event_count = s._event_count
    /\ _last_mm_refresh_event = s._last_mm_refresh_event
    /\ trades = s.trades
    /\ snapshots = s.snapshots
    /\ _last_mid = s._last_mid
    /\ _fundamental_price = s._fundamental_price

\* EventDrivenSimulator(config), for every configuration and every draw that
\* OrderFlowModel.__init__ makes of a field the configuration reads
SimInit ==
    \E cfg \in Configs :
    \E u_trend \in (IF cfg.flow.informed_market_bias > 0 THEN RandomDraws ELSE {0}),
       u_signal \in (IF cfg.flow.p_informed > 0 THEN RandomDraws ELSE {0}) :
        LET s == NewSimulator(cfg, u_trend, u_signal) IN
        /\ SimIs(s)
        /\ call = s.log
        /\ pc = "init"

\* run(), line 59
RunSeedBook ==
    /\ pc = "init"
    /\ SimBecomes(RunSeed(Sim))
    /\ pc' = "seeded"

\* run(), lines 61-63: the first quotes, the first arrivals, the INIT snapshot
RunFirstQuotes ==
    /\ pc = "seeded"
    /\ \E d \in SetupDraws(Sim) : SimBecomes(RunSetup(Sim, d))
    /\ pc' = "loop"

\* a turn of the loop on an event of one type, within the horizon; ids is the order
\* in which list(active_order_ids) gives the ids of the agent's orders
Turn(event_type) ==
    /\ pc = "loop"
    /\ _events # {}
    /\ _event_count < MaxEvents
    /\ LET event == HeapMin(_events) IN
       /\ ~Expired(event, config.end_time)
       /\ event.event_type = event_type
       /\ \E ids \in Orderings(market_maker.active_order_ids),
             d1 \in EventDraws(Sim, event) :
          \E s1 \in {HandleEvent(Popped(Sim, event), event, [d1 EXCEPT !.ids = ids])} :
          \E ties \in RefreshTies(s1) :
          \E s2 \in {CounterRefresh(s1, [NoDraw EXCEPT !.ids = ids, !.ties = ties])} :
          \E d3 \in AdaptDraws(s2) :
          \E s3 \in {TaggedSnapshot(SlowAdapt(s2, d3), event)} :
             SimBecomes(Drawn(s3, d1, [NoDraw EXCEPT !.ties = ties], d3))
    /\ pc' = pc

LimitArrival == Turn("LIMIT_ARRIVAL")

MarketArrival == Turn("MARKET_ARRIVAL")

CancelArrival == Turn("CANCEL_ARRIVAL")

FundamentalMove == Turn("FUNDAMENTAL_MOVE")

MmQuoteUpdate == Turn("MM_QUOTE_UPDATE")

\* lines 66-68: the event popped lies beyond end_time, the loop breaks
BeyondHorizon ==
    /\ pc = "loop"
    /\ _events # {}
    /\ LET event == HeapMin(_events) IN
       /\ Expired(event, config.end_time)
       /\ _events' = _events \ {event}
       /\ call' = [EmptyLog EXCEPT !.op = "break", !.event = event]
    /\ pc' = "done"
    /\ UNCHANGED <<config, book, factory, flow, market_maker, now, _seq, _event_count,
                   _last_mm_refresh_event, trades, snapshots, _last_mid, _fundamental_price>>

\* line 65: the heap is empty, the loop ends
Drained ==
    /\ pc = "loop"
    /\ _events = {}
    /\ call' = [EmptyLog EXCEPT !.op = "drained"]
    /\ pc' = "done"
    /\ UNCHANGED <<config, book, factory, flow, market_maker, now, _seq, _events,
                   _event_count, _last_mm_refresh_event, trades, snapshots, _last_mid,
                   _fundamental_price>>

(***************************************************************************)
(* The agent alone: a MarketMaker that is told of any trade                *)
(***************************************************************************)
\* the fills one agent takes
MaxFills == 3

FillPrices == {99990, 100000, 100010}

FillQtys == {1, 3}

\* MarketMaker(MarketMakerConfig(), tick_size=0.01)
FillsInit ==
    /\ SimIs(NewSimulator(DefaultConfig, 0, 0))
    /\ call = [op |-> "none"]
    /\ pc = "fills"

\* on_trade(trade) for a trade the agent takes part in, as taker or as maker
FillsTrade ==
    /\ pc = "fills"
    /\ Len(market_maker.fills) < MaxFills
    /\ \E taker_side \in {BID, ASK}, price \in FillPrices, qty \in FillQtys,
          as_taker \in BOOLEAN :
          LET taker == FactoryMarket(1, 0, taker_side, qty,
                                     IF as_taker THEN "MM" ELSE "FLOW")
              maker == FactoryLimit(2, 0, opposite(taker_side), price, qty,
                                    IF as_taker THEN "FLOW" ELSE "MM")
              trade == Trade(0, price, qty, taker, maker)
          IN /\ market_maker' = on_trade(market_maker, trade)
             /\ call' = [op |-> "on_trade", trade |-> trade, before |-> market_maker]
    /\ UNCHANGED <<config, book, factory, flow, now, _seq, _events, _event_count,
                   _last_mm_refresh_event, trades, snapshots, _last_mid,
                   _fundamental_price, pc>>

vars ==
    <<book, factory, flow, market_maker, now, _seq, _events, _event_count,
      _last_mm_refresh_event, trades, snapshots, _last_mid, _fundamental_price, config,
      call, pc>>

Init == SimInit \/ FillsInit

Next ==
    \/ RunSeedBook
    \/ RunFirstQuotes
    \/ LimitArrival
    \/ MarketArrival
    \/ CancelArrival
    \/ FundamentalMove
    \/ MmQuoteUpdate
    \/ BeyondHorizon
    \/ Drained
    \/ FillsTrade

Spec == Init /\ [][Next]_vars

(***************************************************************************)
(* A caller of the book alone: orders built by the factory, any cancel     *)
(***************************************************************************)
\* the orders one caller issues
MaxOrders == 4

\* the prices a caller quotes: ticks around 100.00
BookPrices == {99990, 100000, 100010}

BookQtys == {1, 2}

\* quantities Order.__post_init__ refuses
BadQtys == {0, -1}

\* LimitOrderBook() and OrderFactory()
BookInit ==
    /\ SimIs(NewSimulator(DefaultConfig, 0, 0))
    /\ call = [op |-> "none", cancelled |-> {}]
    /\ pc = "book"

\* what a caller of the book alone leaves as it is
BookFrame ==
    UNCHANGED <<flow, market_maker, now, _seq, _events, _event_count,
                _last_mm_refresh_event, trades, snapshots, _last_mid, _fundamental_price,
                config>>

\* the record of one add_order call
AddCall(order) ==
    LET r == add_order(book, order) IN
    /\ book' = r.book
    /\ factory' = FactoryNext(factory)
    /\ call' = [op |-> "add_order", order |-> order, trades |-> r.trades,
                left |-> r.order, before |-> book, cancelled |-> call.cancelled]
    /\ pc' = pc
    /\ BookFrame

\* Order(order_id=self.next_id(), ...) raising ValueError: the factory has counted the
\* id, no order exists and the caller has nothing to hand to the book
ConstructionFails(order_type, side, qty, price) ==
    /\ factory' = FactoryNext(factory)
    /\ call' = [op |-> "ValueError", order_type |-> order_type, side |-> side, qty |-> qty,
                price |-> price, before |-> book, cancelled |-> call.cancelled]
    /\ UNCHANGED <<book, pc>>
    /\ BookFrame

\* factory.limit(...) with any quantity and any price, None included, then add_order
BookAddLimit ==
    /\ pc = "book"
    /\ factory <= MaxOrders
    /\ \E side \in {BID, ASK}, price \in BookPrices \cup {None}, qty \in BookQtys \cup BadQtys :
          IF OrderValid(LIMIT, qty, price)
          THEN AddCall(FactoryLimit(factory, 0, side, price, qty, "FLOW"))
          ELSE ConstructionFails(LIMIT, side, qty, price)

\* factory.market(...) with any quantity, then add_order
BookAddMarket ==
    /\ pc = "book"
    /\ factory <= MaxOrders
    /\ \E side \in {BID, ASK}, qty \in BookQtys \cup BadQtys :
          IF OrderValid(MARKET, qty, None)
          THEN AddCall(FactoryMarket(factory, 0, side, qty, "FLOW"))
          ELSE ConstructionFails(MARKET, side, qty, None)

BookCancel ==
    /\ pc = "book"
    /\ \E order_id \in 1..factory :
          LET r == cancel(book, order_id) IN
          /\ book' = r.book
          /\ call' = [op |-> "cancel", order_id |-> order_id, ret |-> r.ret, before |-> book,
                       cancelled |-> call.cancelled \cup (IF r.ret THEN {order_id} ELSE {})]
          /\ UNCHANGED <<factory, pc>>
          /\ BookFrame

BookNext == BookAddLimit \/ BookAddMarket \/ BookCancel

SpecBook == BookInit /\ [][BookNext]_vars

(***************************************************************************)
(* Properties of the book                                                  *)
(***************************************************************************)
\* the orders resting on one side of b, level by level
RestingOrders(b, side) ==
    LET bk == IF side = BID THEN b._bids ELSE b._asks
    IN {bk[p][i] : <<p, i>> \in {x \in (DOMAIN bk) \X (1..MaxOrders + 8) : x[2] <= Len(bk[x[1]])}}

\* every price that one side of b shows: its index, its dict keys, its resting orders
SidePrices(b, side) ==
    LET bk == IF side = BID THEN b._bids ELSE b._asks
        levels == IF side = BID THEN b._bid_prices ELSE b._ask_prices
    IN {levels[i] : i \in 1..Len(levels)} \cup (DOMAIN bk)
          \cup {o.price : o \in RestingOrders(b, side)}

\* the quantity resting on one side of b
TotalQty(b, side) ==
    LET bk == IF side = BID THEN b._bids ELSE b._asks
        RECURSIVE Sum(_)
        Sum(ps) == IF ps = {} THEN 0
                   ELSE LET p == CHOOSE q \in ps : TRUE IN SumQty(bk[p]) + Sum(ps \ {p})
    IN Sum(DOMAIN bk)

RECURSIVE SumTrades(_)
SumTrades(ts) == IF Len(ts) = 0 THEN 0 ELSE Head(ts).qty + SumTrades(Tail(ts))

\* the ids of a queue, front first
QueueIds(queue) == [i \in 1..Len(queue) |-> queue[i].order_id]

\* C1: after any sequence of add_order and cancel calls, best_bid < best_ask
\* whenever both sides are non-empty, and every resting bid price is strictly
\* below every resting ask price.
C1_PriceOrdering ==
    /\ (best_bid(book) # None /\ best_ask(book) # None) => best_bid(book) < best_ask(book)
    /\ \A pb \in SidePrices(book, BID), pa \in SidePrices(book, ASK) : pb < pa

\* C1's case: a marketable LIMIT order traded, its rest joined the book, both sides are quoted
C1_Witness ==
    /\ call.op = "add_order" /\ call.order.order_type = LIMIT
    /\ Len(call.trades) > 0 /\ call.left.qty > 0
    /\ best_bid(book) # None /\ best_ask(book) # None

\* the trades of the latest add_order call hit the queue of each level front first,
\* and a maker behind another is hit only when the one in front is gone from the book
FrontFirst ==
    call.op = "add_order" =>
        \A side \in {BID, ASK} :
            LET bk == IF side = BID THEN call.before._bids ELSE call.before._asks
            IN \A p \in DOMAIN bk : \A i, j \in 1..Len(bk[p]) :
                  (i < j /\ \E k \in 1..Len(call.trades) :
                                call.trades[k].maker_order_id = bk[p][j].order_id)
                  => /\ IndexPos(book, bk[p][i].order_id) = 0
                     /\ \A o \in RestingOrders(book, side) : o.order_id # bk[p][i].order_id
                     /\ \E k1, k2 \in 1..Len(call.trades) :
                            /\ k1 < k2
                            /\ call.trades[k1].maker_order_id = bk[p][i].order_id
                            /\ call.trades[k1].qty = bk[p][i].qty
                            /\ call.trades[k2].maker_order_id = bk[p][j].order_id

\* a queue holds its orders in the order of their arrival (ids are issued in that order)
ArrivalOrder ==
    \A side \in {BID, ASK} :
        LET bk == IF side = BID THEN book._bids ELSE book._asks
        IN \A p \in DOMAIN bk : \A i, j \in 1..Len(bk[p]) :
              i < j => bk[p][i].order_id < bk[p][j].order_id

\* a cancel takes its order out of its queue and moves no other order
CancelKeepsOrder ==
    (call.op = "cancel" /\ call.ret) =>
        \A side \in {BID, ASK} :
            LET bk == IF side = BID THEN call.before._bids ELSE call.before._asks
                after == IF side = BID THEN book._bids ELSE book._asks
            IN \A p \in DOMAIN bk :
                  LET kept == SelectSeq(QueueIds(bk[p]), LAMBDA id : id # call.order_id)
                  IN IF p \in DOMAIN after THEN QueueIds(after[p]) = kept ELSE kept = <<>>

\* C2: within one price level resting orders are matched strictly in arrival
\* order: no taker trades against B while an earlier A of the same level still
\* rests, and a cancel of another order of the level keeps A before B.
C2_FifoWithinLevel == ArrivalOrder /\ FrontFirst /\ CancelKeepsOrder

\* C2's case: a taker filled the front order A of a level whole and then traded against B
\* behind it, at a level where an order between A and B had been cancelled
C2_Witness ==
    /\ call.op = "add_order" /\ Len(call.trades) >= 2
    /\ call.trades[1].price = call.trades[2].price
    /\ call.trades[1].maker_order_id + 1 < call.trades[2].maker_order_id
    /\ call.trades[1].maker_order_id + 1 \in call.cancelled

\* C3: every trade of an add_order call has a positive quantity equal to
\* min(taker remaining, maker remaining) at that moment, maker and taker each
\* lose exactly that quantity, and the trade quantities sum to what the taker
\* lost, which is what the opposing side lost.
C3_QuantityConservation ==
    call.op = "add_order" =>
        LET ts == call.trades
            opp == opposite(call.order.side)
        IN /\ \A k \in 1..Len(ts) :
                 LET taker_left == call.order.qty - SumTrades(SubSeq(ts, 1, k - 1))
                     maker_before == order_qty(call.before, ts[k].maker_order_id)
                     maker_after == order_qty(book, ts[k].maker_order_id)
                 IN /\ ts[k].qty > 0
                    /\ maker_before # None
                    /\ ts[k].qty = Min(taker_left, maker_before)
                    /\ IF maker_before = ts[k].qty THEN maker_after = None
                       ELSE maker_after = maker_before - ts[k].qty
                    /\ \A k2 \in 1..Len(ts) :
                          ts[k2].maker_order_id = ts[k].maker_order_id => k2 = k
           /\ call.left.qty = call.order.qty - SumTrades(ts)
           /\ SumTrades(ts) = TotalQty(call.before, opp) - TotalQty(book, opp)

\* C3's case: one call traded against a maker it filled whole and a maker it filled in part
C3_Witness ==
    /\ call.op = "add_order" /\ Len(call.trades) = 2
    /\ order_qty(book, call.trades[1].maker_order_id) = None
    /\ order_qty(book, call.trades[2].maker_order_id) = 1

C8_CrossingLimitPartialFill ==
    call.op = "add_order" =>
        LET o == call.order
            opp == opposite(o.side)
            P == IF o.side = BID THEN best_ask(call.before) ELSE best_bid(call.before)
            bk == IF opp = ASK THEN call.before._asks ELSE call.before._bids
            after == IF opp = ASK THEN book._asks ELSE book._bids
        IN (/\ o.order_type = LIMIT /\ P # None /\ o.price = P
            /\ Len(bk[P]) = 1 /\ o.qty < bk[P][1].qty)
           => /\ Len(call.trades) = 1
              /\ call.trades[1].price = P /\ call.trades[1].qty = o.qty
              /\ call.trades[1].maker_order_id = bk[P][1].order_id
              /\ P \in DOMAIN after /\ Len(after[P]) = 1
              /\ after[P][1] = [bk[P][1] EXCEPT !.qty = bk[P][1].qty - o.qty]
              /\ (IF o.side = BID THEN best_ask(book) ELSE best_bid(book)) = P
              /\ IndexPos(book, o.order_id) = 0
              /\ RestingOrders(book, o.side) = RestingOrders(call.before, o.side)
              /\ call.left.qty = 0

\* C8's case: an ASK LIMIT at the best bid, smaller than the single order resting there
C8_Witness ==
    /\ call.op = "add_order" /\ call.order.order_type = LIMIT /\ call.order.side = ASK
    /\ best_bid(call.before) = call.order.price
    /\ Len(call.before._bids[call.order.price]) = 1
    /\ call.order.qty < call.before._bids[call.order.price][1].qty
    /\ Len(call.trades) = 1

\* C9: a MARKET order never rests, whatever was left of it; one larger than the
\* opposing depth (zero depth included) fills exactly that depth, empties the
\* side, drops its rest and leaves its own side unchanged.
C9_MarketNeverRests ==
    (call.op = "add_order" /\ call.order.order_type = MARKET) =>
        LET o == call.order
            opp == opposite(o.side)
            own == IF o.side = BID THEN <<book._bids, book._bid_prices>>
                                   ELSE <<book._asks, book._ask_prices>>
            own_before == IF o.side = BID THEN <<call.before._bids, call.before._bid_prices>>
                                          ELSE <<call.before._asks, call.before._ask_prices>>
        IN /\ IndexPos(book, o.order_id) = 0
           /\ \A side \in {BID, ASK} : \A r \in RestingOrders(book, side) :
                  r.order_id # o.order_id
           /\ own = own_before
           /\ o.qty > TotalQty(call.before, opp) =>
                 /\ SumTrades(call.trades) = TotalQty(call.before, opp)
                 /\ (IF opp = ASK THEN <<book._asks, book._ask_prices>>
                                  ELSE <<book._bids, book._bid_prices>>) = <<<<>>, <<>>>>
                 /\ call.left.qty = o.qty - TotalQty(call.before, opp)
                 /\ call.left.qty > 0

\* C9's case: a MARKET order larger than a non-empty opposing side, with its own side quoted
C9_Witness ==
    /\ call.op = "add_order" /\ call.order.order_type = MARKET
    /\ Len(call.trades) > 0 /\ call.left.qty > 0
    /\ RestingOrders(book, call.order.side) # {}



(***************************************************************************)
(* Properties of the agent and of the run, under Spec                      *)
(***************************************************************************)
\* the mid prices the agent is marked at: whole ticks and half ticks
PnlMids == {99985, 100000, 100005, 100020}

\* C5: for an agent that starts flat with zero cash, after any sequence of fills
\* realized_pnl + unrealized_pnl(mid) equals cash + inventory * mid - initial_cash at
\* every mid, and in every snapshot of a run mm_pnl equals mm_mtm_pnl.
C5_PnlReconciliation ==
    /\ \A mid \in PnlMids :
          total_pnl(market_maker, mid) = mark_to_market(market_maker, mid)
    /\ \A i \in 1..Len(snapshots) : snapshots[i].mm_pnl = snapshots[i].mm_mtm_pnl

\* a long position of 2 built by two fills at different prices is flipped to a short
\* one by a fill of 3, and a profit or loss is realized
C5_Witness ==
    /\ call.op = "on_trade"
    /\ Len(market_maker.fills) = 3
    /\ call.before.inventory = 2
    /\ call.before.fills[1].price # call.before.fills[2].price
    /\ market_maker.inventory = -1
    /\ market_maker.realized_pnl.num # 0

\* C6: a turn of the loop is a function of the simulator and of the draws alone: in
\* whatever order the ids of the agent's orders are read, the turn leaves the same
\* simulator, snapshots and trades included.  (Two runs of one configuration and one
\* sequence of draws are then equal turn by turn.)
C6_Determinism ==
    [][(pc = "loop" /\ pc' = "loop") =>
          \A ids \in Orderings(market_maker.active_order_ids) :
             LET d == call'.draws
                 s == LoopTurn(Sim, [d[1] EXCEPT !.ids = ids], [d[2] EXCEPT !.ids = ids],
                               d[3])
             IN Drawn(s, d[1], d[2], d[3]) = Sim']_vars

\* a turn that refreshed the quotes read two ids of the agent, after a trade
C6_Witness ==
    /\ pc = "loop"
    /\ call.op = "event"
    /\ call.mm_refreshed
    /\ Cardinality(call.cancels) >= 2
    /\ Len(snapshots) >= 2
    /\ Len(trades) > 0

\* the configuration of the scenario: 3 levels of 20 at 100.00, tick 0.01
SeedScenario ==
    /\ pc = "seeded"
    /\ config.initial_depth_levels = 3
    /\ config.initial_depth_qty = 20
    /\ config.base_price = 100000
    /\ config.tick_size = 10

\* C7 as stated: seeding 3 levels of 20 at base 100.00, tick 0.01 yields best_bid 99.97,
\* best_ask 100.03, spread 0.06, mid 100.00.
C7_SeedAsStated ==
    SeedScenario =>
        /\ best_bid(book) = 99970
        /\ best_ask(book) = 100030
        /\ spread(book) = 60
        /\ mid_price(book) = 100000

\* C7 amended: seeding 3 levels of 20 at base 100.00, tick 0.01 yields best_bid 99.99,
\* best_ask 100.01, spread 0.02, mid 100.00: the best bid is the base minus 1 tick, the
\* best ask the base plus 1 tick, the spread 2 ticks.
C7_SeedBook ==
    SeedScenario =>
        /\ best_bid(book) = 99990
        /\ best_ask(book) = 100010
        /\ spread(book) = 20
        /\ mid_price(book) = 100000

\* the book right after the seeding: 3 levels a side, 20 at the top of each
C7_Witness ==
    /\ SeedScenario
    /\ Len(book._bid_prices) = 3
    /\ Len(book._ask_prices) = 3
    /\ top_depth(book) = <<20, 20>>
    /\ TotalQty(book, BID) = 60
    /\ TotalQty(book, ASK) = 60

\* an event of the informed channel
InformedMove(e) ==
    /\ e.event_type = "FUNDAMENTAL_MOVE"
    /\ "source" \in DOMAIN e.payload
    /\ e.payload.source = "informed"

\* C10: with p_informed = 0 no FUNDAMENTAL_MOVE of source "informed" is ever scheduled,
\* no order of owner INFORMED and no impact order of owner LATENT_MOVE is ever submitted.
C10_InformedDisabled ==
    (pc \in {"seeded", "loop", "done"} /\ config.flow.p_informed = 0) =>
        /\ \A e \in _events : ~InformedMove(e)
        /\ \A i \in 1..Len(call.scheduled) : ~InformedMove(call.scheduled[i])
        /\ \A i \in 1..Len(call.orders) :
              call.orders[i].owner \notin {"INFORMED", "LATENT_MOVE"}
        /\ \A i \in 1..Len(trades) :
              trades[i].taker_owner \notin {"INFORMED", "LATENT_MOVE"}

\* a market arrival handled with p_informed = 0 on the least draw of should_send_informed
C10_Witness ==
    /\ pc = "loop"
    /\ config.flow.p_informed = 0
    /\ call.op = "event"
    /\ call.event.event_type = "MARKET_ARRIVAL"
    /\ call.draws[1].u_informed = 0
    /\ Len(call.orders) >= 1
    /\ call.orders[1].owner = "FLOW"
    /\ call.orders[1].order_type = MARKET

(***************************************************************************)
(* The event queue and the loop of run()                                   *)
(***************************************************************************)
\* the events a step has scheduled carry the sequence numbers from seq0 on, in the
\* order scheduled, and none lies before the clock
ScheduledFrom(log, seq0, clock) ==
    \A i \in 1..Len(log.scheduled) :
        /\ log.scheduled[i].seq = seq0 + i - 1
        /\ log.scheduled[i].timestamp >= clock

\* C11: events are dispatched in strictly increasing (timestamp, seq) order, and every
\* event scheduled, at set-up or during the run, has a timestamp at or after the clock
\* and a sequence number above every earlier one.
C11_DispatchOrder ==
    [][/\ (call.op = "event" /\ call'.op = "event") =>
            \/ call.event.timestamp < call'.event.timestamp
            \/ /\ call.event.timestamp = call'.event.timestamp
               /\ call.event.seq < call'.event.seq
       /\ call'.op \in {"setup", "event"} =>
            /\ ScheduledFrom(call', _seq, now')
            /\ _seq' = _seq + Len(call'.scheduled)
            /\ now' >= now
            /\ \A e \in _events' : e.seq < _seq' /\ e.timestamp >= now'
            /\ call'.op = "event" =>
                  /\ call'.event \in _events
                  /\ now' = call'.event.timestamp
                  /\ \A e \in _events : e.timestamp >= call'.event.timestamp]_vars

\* two events of one timestamp dispatched one after the other, the second of them
\* scheduling its successor
C11_Witness ==
    /\ pc = "loop"
    /\ call.op = "event"
    /\ Len(snapshots) >= 3
    /\ snapshots[Len(snapshots)].timestamp = snapshots[Len(snapshots) - 1].timestamp
    /\ Len(call.scheduled) > 0

\* C12: an event popped with a timestamp above end_time ends the run with no handler
\* call, order, trade or snapshot, and nothing is done afterwards; an event at or below
\* end_time is processed; so no snapshot and no trade lies beyond end_time.
C12_HorizonStop ==
    [][/\ (pc = "loop" /\ _events # {}) =>
            LET event == HeapMin(_events) IN
            IF event.timestamp > config.end_time
            THEN /\ pc' = "done"
                 /\ call'.orders = <<>> /\ call'.scheduled = <<>> /\ call'.refresh_calls = 0
                 /\ UNCHANGED <<book, market_maker, factory, flow, trades, snapshots, now,
                                _seq, _event_count, _last_mid, _fundamental_price>>
            ELSE /\ pc' = "loop"
                 /\ call'.op = "event" /\ call'.event = event
                 /\ now' = event.timestamp
                 /\ _event_count' = _event_count + 1
                 /\ Len(snapshots') = Len(snapshots) + 1
       /\ pc = "done" => UNCHANGED vars
       /\ now' <= config.end_time
       /\ \A i \in 1..Len(snapshots') : snapshots'[i].timestamp <= config.end_time
       /\ \A i \in 1..Len(trades') : trades'[i].timestamp <= config.end_time]_vars

\* a run that has processed an event at end_time itself and has stopped at a later
\* one, other events still in the heap
C12_Witness ==
    /\ pc = "done"
    /\ call.op = "break"
    /\ call.event.timestamp > config.end_time
    /\ _events # {}
    /\ Len(snapshots) >= 2
    /\ snapshots[Len(snapshots)].timestamp = config.end_time

\* C13: a run takes no snapshot before its set-up is done, then one INIT snapshot
\* (event_idx 0) of the book as seeded and quoted, then one snapshot per processed
\* event: the snapshots number the processed events plus one, event_idx rises by one
\* from each to the next and the timestamps never fall.
C13_SnapshotPerEvent ==
    IF pc \in {"init", "seeded"} THEN Len(snapshots) = 0
    ELSE (pc \in {"loop", "done"}) =>
        /\ Len(snapshots) = _event_count + 1
        /\ snapshots[1].event_type = <<"INIT">>
        /\ snapshots[1].timestamp = 0
        /\ \A i \in 1..Len(snapshots) :
              /\ snapshots[i].event_idx = i - 1
              /\ i > 1 => /\ snapshots[i].event_type[1] # "INIT"
                          /\ snapshots[i].timestamp >= snapshots[i - 1].timestamp
        /\ call.op = "setup" =>
              /\ call.refresh_calls = 1
              /\ snapshots[1].best_bid = best_bid(book)
              /\ snapshots[1].best_ask = best_ask(book)
              /\ \A e \in _events : \E i \in 1..Len(call.scheduled) : call.scheduled[i] = e
        /\ call.op = "event" =>
              /\ snapshots[Len(snapshots)].timestamp = call.event.timestamp
              /\ snapshots[Len(snapshots)].event_type[1] = call.event.event_type

\* a run that has ended after three events, one of which left the agent's quotes as
\* they were
C13_Witness ==
    /\ pc = "done"
    /\ Len(snapshots) = 4
    /\ \E i \in 2..4 : Len(snapshots[i].event_type) = 1

\* C14: with mm_update_every_k_events = K > 0 the quotes are refreshed while the
\* n-th event is processed exactly when K divides n, whatever the event's type, and
\* the snapshot's events_since_mm_refresh is n mod K, below K.
C14_RefreshEveryK ==
    (pc = "loop" /\ call.op = "event" /\ config.mm_update_every_k_events > 0) =>
        LET K == config.mm_update_every_k_events
            n == _event_count
            snap == snapshots[Len(snapshots)]
        IN /\ (call.refresh_calls > 0) <=> (n % K = 0)
           /\ call.mm_refreshed <=> (n % K = 0)
           /\ (Len(snap.event_type) > 1 /\ snap.event_type[2] = "MM_REFRESH") <=> (n % K = 0)
           /\ snap.event_idx = n
           /\ snap.events_since_mm_refresh = n % K
           /\ snap.events_since_mm_refresh < K
           /\ _last_mm_refresh_event = n - (n % K)

\* the third event of a run with K = 2: refreshed at the second, not at the first
\* nor at the third
C14_Witness ==
    /\ pc = "loop"
    /\ call.op = "event"
    /\ config.mm_update_every_k_events = 2
    /\ _event_count = 3
    /\ snapshots[3].events_since_mm_refresh = 0
    /\ snapshots[4].events_since_mm_refresh = 1
    /\ call.refresh_calls = 0

\* an event of the legacy timer
QuoteUpdate(e) == e.event_type = "MM_QUOTE_UPDATE"

\* C15: one refresh mechanism per run and at most one refresh per processed event.
\* With K > 0 no MM_QUOTE_UPDATE event is ever scheduled or dispatched and an event
\* refreshes the quotes exactly when K divides its number; with K <= 0 an event
\* refreshes the quotes exactly when it is an MM_QUOTE_UPDATE, which schedules the next.
C15_OneRefreshMechanism ==
    (pc \in {"loop", "done"}) =>
        LET K == config.mm_update_every_k_events IN
        /\ call.op = "event" => call.refresh_calls <= 1
        /\ K > 0 =>
              /\ \A e \in _events : ~QuoteUpdate(e)
              /\ call.op \in {"setup", "event"} =>
                    \A i \in 1..Len(call.scheduled) : ~QuoteUpdate(call.scheduled[i])
              /\ call.op = "event" =>
                    /\ ~QuoteUpdate(call.event)
                    /\ (call.refresh_calls = 1) <=> (_event_count % K = 0)
        /\ K <= 0 =>
              /\ call.op = "event" =>
                    /\ (call.refresh_calls = 1) <=> QuoteUpdate(call.event)
                    /\ call.mm_refreshed <=> QuoteUpdate(call.event)
                    /\ (QuoteUpdate(call.event) /\ config.mm_update_rate > 0) =>
                          /\ Len(call.scheduled) = 1
                          /\ QuoteUpdate(call.scheduled[1])
                          /\ call.scheduled[1].timestamp > now
              /\ (call.op = "setup" /\ config.mm_update_rate > 0) =>
                    Cardinality({i \in 1..Len(call.scheduled) :
                                    QuoteUpdate(call.scheduled[i])}) = 1

\* a run with K = 0 in which an event of the order flow left the quotes alone and a
\* timer event then refreshed them once
C15_Witness ==
    /\ pc = "loop"
    /\ config.mm_update_every_k_events <= 0
    /\ call.op = "event"
    /\ QuoteUpdate(call.event)
    /\ call.refresh_calls = 1
    /\ \E i \in 2..Len(snapshots) : snapshots[i].event_type = <<"MARKET_ARRIVAL">>

(***************************************************************************)
(* The agent's quotes and orders in a run                                  *)
(***************************************************************************)
\* C16: the agent never crosses or locks the book: at every refresh the bid of
\* make_quotes is at most best_ask less a tick and its ask at least best_bid plus a
\* tick (the fallback branch and a missing side included), so no quote trades on
\* submission and the agent is never the taker of a trade.
C16_NeverCrosses ==
    (pc \in {"loop", "done"}) =>
        /\ (call.op \in {"setup", "event"} /\ call.refresh_calls > 0) =>
              LET q == call.quoted IN
              /\ q.best_ask # None => q.bid <= q.best_ask - config.tick_size
              /\ q.best_bid # None => q.ask >= q.best_bid + config.tick_size
        /\ \A i \in 1..Len(trades) : trades[i].taker_owner # "MM"

\* C17: the book never holds more than one resting MM order a side (two in all), and
\* a refresh cancels every MM order resting before it and leaves only orders of its
\* own pair: no MM order of an earlier refresh rests after it.
C17_FullReplace ==
    [][(pc' \in {"loop", "done"}) =>
          LET Mine(b, side) == {o \in RestingOrders(b, side) : o.owner = "MM"}
              Issued == {call'.orders[i].order_id :
                            i \in {j \in DOMAIN call'.orders : call'.orders[j].owner = "MM"}}
          IN /\ \A side \in {BID, ASK} : Cardinality(Mine(book', side)) <= 1
             /\ (call'.op \in {"setup", "event"} /\ call'.refresh_calls > 0) =>
                   \A side \in {BID, ASK} :
                      /\ \A o \in Mine(book, side) :
                            /\ o.order_id \in call'.cancels
                            /\ o.order_id \notin
                                  {r.order_id : r \in RestingOrders(book', side)}
                      /\ \A o \in Mine(book', side) :
                            o.order_id \in Issued /\ o.timestamp = now'
    ]_vars

\* a refresh at an event that found both earlier quotes resting, one of them partly
\* filled by the event's arrival, and left a new pair
C17_Witness ==
    /\ pc = "loop" /\ call.op = "event" /\ call.refresh_calls > 0
    /\ Cardinality(call.cancels) >= 2
    /\ \E i \in DOMAIN trades :
          /\ trades[i].maker_owner = "MM" /\ trades[i].timestamp = now
          /\ trades[i].qty < config.market_maker.quote_qty
    /\ \A side \in {BID, ASK} :
          \E o \in RestingOrders(book, side) :
             o.owner = "MM" /\ o.timestamp = now /\ o.qty = config.market_maker.quote_qty

\* C18: at every snapshot active_order_ids is exactly the set of ids of the MM orders
\* resting in the book: it has at most two members and holds no id of an order that
\* was filled or cancelled.
C18_TrackedIds ==
    (pc \in {"loop", "done"} /\ call.op \in {"setup", "event"}) =>
        /\ market_maker.active_order_ids =
              {o.order_id : o \in {r \in RestingOrders(book, BID) \cup RestingOrders(book, ASK) :
                                      r.owner = "MM"}}
        /\ Cardinality(market_maker.active_order_ids) <= 2

\* C19: the agent's state changes only through the trades it is a party to, once a
\* trade: at every snapshot inventory is the sum over the MM trades of the trade log
\* of +qty for a buy (MM taker on BID, or MM maker against an ASK taker) and -qty
\* for a sell, cash is initial_cash less the sum of sign * price * qty over them, and
\* the fill log has one entry a trade, in order, with the trade's timestamp; an event
\* whose trades do not involve MM leaves the agent's inventory, cash, average entry
\* price, realized P&L and fill log as they were.
C19_FillsFollowTrades ==
    [][(pc' \in {"loop", "done"}) =>
          LET Mine(t) == t.taker_owner = "MM" \/ t.maker_owner = "MM"
              Sign(t) == IF t.taker_owner = "MM"
                         THEN (IF t.taker_side = BID THEN 1 ELSE -1)
                         ELSE (IF t.taker_side = ASK THEN 1 ELSE -1)
              RECURSIVE Bought(_, _)
              \* the sum of sign * qty * w over the MM trades of ts, w being 1 or the price
              Bought(ts, priced) ==
                  IF Len(ts) = 0 THEN 0
                  ELSE Bought(Tail(ts), priced)
                       + (IF Mine(Head(ts))
                          THEN Sign(Head(ts)) * Head(ts).qty
                               * (IF priced THEN Head(ts).price ELSE 1)
                          ELSE 0)
              mt == SelectSeq(trades', Mine)
              mm == market_maker'
          IN /\ mm.inventory = Bought(trades', FALSE)
             /\ mm.cash = mm.initial_cash - Bought(trades', TRUE)
             /\ Len(mm.fills) = Len(mt)
             /\ \A i \in 1..Len(mt) :
                   /\ mm.fills[i].timestamp = mt[i].timestamp
                   /\ mm.fills[i].mm_side = Sign(mt[i])
                   /\ mm.fills[i].qty = mt[i].qty /\ mm.fills[i].price = mt[i].price
             /\ (\A i \in (Len(trades) + 1)..Len(trades') : ~Mine(trades'[i])) =>
                   /\ mm.inventory = market_maker.inventory
                   /\ mm.cash = market_maker.cash
                   /\ mm.avg_entry_price = market_maker.avg_entry_price
                   /\ mm.realized_pnl = market_maker.realized_pnl
                   /\ mm.fills = market_maker.fills
    ]_vars

\* an event whose order traded with the flow's resting order and with the agent's,
\* after an earlier fill of the agent
C19_Witness ==
    /\ pc = "loop" /\ call.op = "event"
    /\ Len(market_maker.fills) >= 2 /\ market_maker.inventory # 0
    /\ \E i, j \in DOMAIN trades :
          /\ trades[i].timestamp = now /\ trades[j].timestamp = now
          /\ trades[i].maker_owner = "MM"
          /\ trades[j].maker_owner # "MM" /\ trades[j].taker_owner # "MM"

(***************************************************************************)
(* Order construction, by a caller of the book alone                       *)
(***************************************************************************)
\* C20: constructing an order with quantity <= 0, or a LIMIT order with no price,
\* fails with an error at construction and the order never reaches the book: the
\* failed attempt leaves the book as it was, and every order add_order is given, and
\* every order resting, has a positive quantity and, if LIMIT, a price.
C20_ConstructionRejects ==
    (pc = "book") =>
        /\ (call.op = "ValueError") =>
              /\ call.qty <= 0 \/ (call.order_type = LIMIT /\ call.price = None)
              /\ book = call.before
        /\ (call.op = "add_order") =>
              /\ call.order.qty > 0
              /\ call.order.order_type = LIMIT => call.order.price # None
        /\ \A side \in {BID, ASK} : \A o \in RestingOrders(book, side) :
              o.qty > 0 /\ o.price # None

\* a LIMIT order of a positive quantity and no price refused while orders rest on
\* both sides of the book
C20_Witness ==
    /\ pc = "book" /\ call.op = "ValueError"
    /\ call.order_type = LIMIT /\ call.price = None /\ call.qty > 0
    /\ RestingOrders(book, BID) # {} /\ RestingOrders(book, ASK) # {}

(***************************************************************************)
(* The book's operations, by a caller of the book alone                    *)
(***************************************************************************)
\* C21: cancel returns true exactly when the id rests at the call; a true cancel takes
\* that one order out of its queue and out of the index, drops its price level
\* exactly when it was the last order there, and leaves every other resting order,
\* its quantity and place, every other level and the opposite side as they were.
C21_CancelFrame ==
    (call.op = "cancel") =>
        LET b0 == call.before
            Other(o) == o.order_id # call.order_id
            Hit(side) == {o \in RestingOrders(b0, side) : ~Other(o)}
            Bk(b, side) == IF side = BID THEN b._bids ELSE b._asks
            Lv(b, side) == IF side = BID THEN b._bid_prices ELSE b._ask_prices
            Untouched(side) ==
                Bk(book, side) = Bk(b0, side) /\ Lv(book, side) = Lv(b0, side)
            Removed(side, p) ==
                LET rest == SelectSeq(Bk(b0, side)[p], Other)
                    NotP(q) == q # p
                IN /\ Len(rest) = Len(Bk(b0, side)[p]) - 1
                   /\ DOMAIN Bk(book, side) \subseteq DOMAIN Bk(b0, side)
                   /\ \A q \in DOMAIN Bk(b0, side) \ {p} :
                         q \in DOMAIN Bk(book, side) /\ Bk(book, side)[q] = Bk(b0, side)[q]
                   /\ IF Len(rest) = 0
                      THEN /\ p \notin DOMAIN Bk(book, side)
                           /\ Lv(book, side) = SelectSeq(Lv(b0, side), NotP)
                      ELSE /\ p \in DOMAIN Bk(book, side) /\ Bk(book, side)[p] = rest
                           /\ Lv(book, side) = Lv(b0, side)
        IN /\ call.ret <=> (Hit(BID) \cup Hit(ASK) # {})
           /\ call.ret =>
                 /\ \A side \in {BID, ASK} :
                       IF Hit(side) = {} THEN Untouched(side)
                       ELSE Removed(side, (CHOOSE o \in Hit(side) : TRUE).price)
                 /\ book._order_index = SelectSeq(b0._order_index, Other)
                 /\ Len(book._order_index) = Len(b0._order_index) - 1
           /\ ~call.ret => book = b0

\* a true cancel of an order behind another at its price, with orders on the other side
C21_Witness ==
    /\ call.op = "cancel" /\ call.ret
    /\ \E side \in {BID, ASK} : \E o \in RestingOrders(call.before, side) :
          /\ o.order_id = call.order_id
          /\ \E r \in RestingOrders(book, side) : r.price = o.price /\ r.order_id < o.order_id
          /\ RestingOrders(book, opposite(side)) # {}

(***************************************************************************)
(* Moves of the fundamental price                                          *)
(***************************************************************************)
\* a FUNDAMENTAL_MOVE has just been dispatched from the loop
MoveDispatched ==
    pc = "loop" /\ call'.op = "event" /\ call'.event.event_type = "FUNDAMENTAL_MOVE"

\* the simulator the same step leaves when the event popped is a TOXIC_MOVE of the same
\* timestamp, seq and payload, under the same draws; ids orders the agent's order ids
ToxicTwin(ids) ==
    LET e == call'.event
        d == call'.draws
    IN ProcessEvent(Popped(Sim, e), [e EXCEPT !.event_type = "TOXIC_MOVE"],
                    [d[1] EXCEPT !.ids = ids], [d[2] EXCEPT !.ids = ids], d[3])

\* C22 as stated: a TOXIC_MOVE is handled as the FUNDAMENTAL_MOVE of the same payload
\* is: from the same state both leave the same fundamental price, book, agent and
\* pending events, the next exogenous move of an "exogenous" payload included.
C22_ToxicAsStated ==
    [][MoveDispatched =>
          \A ids \in Orderings(market_maker.active_order_ids) :
             LET Twin(s) ==
                     /\ s._fundamental_price = _fundamental_price'
                     /\ s.book = book' /\ s.market_maker = market_maker'
                     /\ s._events = _events'
             IN Twin(ToxicTwin(ids))
    ]_vars

\* C22 as amended: a TOXIC_MOVE leaves the fundamental price, the book, the trades and
\* the agent that the FUNDAMENTAL_MOVE of the same payload leaves, and the same
\* pending events unless the payload's source is "exogenous": then the
\* FUNDAMENTAL_MOVE has scheduled the next exogenous move and the TOXIC_MOVE has
\* scheduled nothing.
C22_ToxicReplay ==
    [][MoveDispatched =>
          \A ids \in Orderings(market_maker.active_order_ids) :
             LET e == call'.event
                 Twin(s) ==
                     /\ s._fundamental_price = _fundamental_price'
                     /\ s.book = book' /\ s.market_maker = market_maker'
                     /\ s.trades = trades' /\ s.factory = factory'
                     /\ s._events = _events \ {e}
                     /\ IF "source" \in DOMAIN e.payload /\ e.payload.source = "exogenous"
                        THEN /\ Len(call'.scheduled) = 1
                             /\ call'.scheduled[1].event_type = "FUNDAMENTAL_MOVE"
                             /\ call'.scheduled[1] \notin s._events
                             /\ _events' = s._events \cup {call'.scheduled[1]}
                             /\ s.log.scheduled = <<>>
                        ELSE s._events = _events' /\ call'.scheduled = <<>>
             IN Twin(ToxicTwin(ids))
    ]_vars

\* an exogenous FUNDAMENTAL_MOVE dispatched, its successor scheduled
C22_Witness ==
    /\ pc = "loop" /\ call.op = "event" /\ call.event.event_type = "FUNDAMENTAL_MOVE"
    /\ "source" \in DOMAIN call.event.payload /\ call.event.payload.source = "exogenous"
    /\ Len(call.scheduled) = 1 /\ call.scheduled[1] \in _events

\* C23: an informed MARKET_ARRIVAL at time t submits one MARKET order of owner INFORMED
\* on the side of its signal and schedules exactly one FUNDAMENTAL_MOVE of source
\* "informed", that signal and timestamp t + max(0, toxic_move_delay); an uninformed
\* one schedules no FUNDAMENTAL_MOVE.  The move is dispatched exactly when its
\* timestamp is within end_time (a run that ends leaves none such pending), and its
\* dispatch shifts the fundamental price the way of the informed order.
C23_InformedMove ==
    [][(pc' \in {"loop", "done"}) =>
          LET log == call'
              Moves == {i \in DOMAIN log.scheduled :
                           log.scheduled[i].event_type \in {"FUNDAMENTAL_MOVE", "TOXIC_MOVE"}}
              Signal(o) == IF o.side = BID THEN 1 ELSE -1
              Planned(o, m) ==
                  /\ InformedMove(m)
                  /\ m.payload.signal = Signal(o)
                  /\ m.timestamp = now' + Max(0, config.flow.toxic_move_delay)
                  /\ m \in _events' /\ m \notin _events
              Arrival(o) ==
                  /\ o.order_type = MARKET /\ o.owner \in {"INFORMED", "FLOW"}
                  /\ o.timestamp = now'
                  /\ \A i \in 2..Len(log.orders) : log.orders[i].owner # "INFORMED"
                  /\ IF o.owner = "INFORMED"
                     THEN /\ Cardinality(Moves) = 1
                          /\ \A i \in Moves : Planned(o, log.scheduled[i])
                     ELSE Moves = {}
          IN /\ (log.op = "event" /\ log.event.event_type = "MARKET_ARRIVAL") =>
                   Len(log.orders) >= 1 /\ Arrival(log.orders[1])
             /\ (log.op = "event" /\ InformedMove(log.event)) =>
                   /\ log.event.timestamp <= config.end_time
                   /\ _fundamental_price' - _fundamental_price =
                         log.event.payload.signal * Max(1, config.flow.toxic_jump_ticks)
                            * config.tick_size
                   /\ log.event.payload.signal \in {1, -1}
             /\ (log.op = "break" /\ InformedMove(log.event)) =>
                   log.event.timestamp > config.end_time
             /\ (pc' = "done") =>
                   \A e \in _events' : InformedMove(e) => e.timestamp > config.end_time
    ]_vars

\* an informed buy has traded and its move, dispatched later, has raised the
\* fundamental price
C23_Witness ==
    /\ pc = "loop" /\ call.op = "event" /\ InformedMove(call.event)
    /\ call.event.payload.signal = 1
    /\ _fundamental_price > config.base_price
    /\ \E i \in DOMAIN trades :
          trades[i].taker_owner = "INFORMED" /\ trades[i].taker_side = BID

\* C24: in v2_slow_adapt the handler of a FUNDAMENTAL_MOVE changes the fundamental
\* price and nothing else: no order, no trade, the book and the agent as they were;
\* orders of owner FUNDAMENTAL_IMPACT or LATENT_MOVE are submitted in v1_control only.
C24_SlowModeMovesPriceOnly ==
    [][(pc' \in {"loop", "done"}) =>
          LET e == call'.event
              Impact(owner) == owner \in {"FUNDAMENTAL_IMPACT", "LATENT_MOVE"}
              \* the simulator as line 89 finds it, and as the handler leaves it
              Entered == [Popped(Sim, e) EXCEPT
                             !.now = e.timestamp, !._event_count = @ + 1,
                             !.log = [EmptyLog EXCEPT !.op = "event", !.event = e]]
              PriceOnly(s0, s1) ==
                  /\ s1 = [s0 EXCEPT !._fundamental_price = s1._fundamental_price]
                  /\ s1._fundamental_price # s0._fundamental_price
                  /\ s1._fundamental_price = _fundamental_price'
          IN /\ (MoveDispatched /\ config.environment_mode = "v2_slow_adapt") =>
                   /\ PriceOnly(Entered,
                                _handle_fundamental_move(Entered, e.payload, call'.draws[1]))
                   /\ \A i \in DOMAIN call'.orders : ~Impact(call'.orders[i].owner)
             /\ (\E i \in DOMAIN call'.orders : Impact(call'.orders[i].owner)) =>
                   config.environment_mode = "v1_control" /\ MoveDispatched
             /\ (\E i \in DOMAIN trades' : Impact(trades'[i].taker_owner)) =>
                   config.environment_mode = "v1_control"
    ]_vars

\* a FUNDAMENTAL_MOVE in v2_slow_adapt that has moved the fundamental price away from
\* a book that nothing has traded on
C24_Witness ==
    /\ pc = "loop" /\ config.environment_mode = "v2_slow_adapt"
    /\ call.op = "event" /\ call.event.event_type = "FUNDAMENTAL_MOVE"
    /\ ~call.adapt_applied /\ trades = <<>>
    /\ _fundamental_price # config.base_price
    /\ RestingOrders(book, BID) # {} /\ RestingOrders(book, ASK) # {}

(***************************************************************************)
(* The streams of events that reschedule themselves                        *)
(***************************************************************************)
\* C25: of each stream (LIMIT_ARRIVAL, MARKET_ARRIVAL, CANCEL_ARRIVAL, the exogenous
\* FUNDAMENTAL_MOVE) at most one event is pending at any time; with a rate > 0 one
\* is pending, not before the clock, while the loop runs, and each dispatch of the
\* stream has scheduled exactly that one; with a rate <= 0 none is ever scheduled.
C25_OnePendingPerStream ==
    (pc \in {"loop", "done"}) =>
        \A src \in {"LIMIT_ARRIVAL", "MARKET_ARRIVAL", "CANCEL_ARRIVAL", "EXOGENOUS"} :
           LET Of(e) ==
                   IF src = "EXOGENOUS"
                   THEN /\ e.event_type = "FUNDAMENTAL_MOVE"
                        /\ "source" \in DOMAIN e.payload /\ e.payload.source = "exogenous"
                   ELSE e.event_type = src
               rate == IF src = "LIMIT_ARRIVAL" THEN config.flow.limit_rate
                       ELSE IF src = "MARKET_ARRIVAL" THEN config.flow.market_rate
                       ELSE IF src = "CANCEL_ARRIVAL" THEN config.flow.cancel_rate
                       ELSE config.flow.fundamental_rate
               pending == {e \in _events : Of(e)}
               made == {i \in DOMAIN call.scheduled : Of(call.scheduled[i])}
               dispatched == call.op = "event" /\ Of(call.event)
           IN /\ Cardinality(pending) <= 1
              /\ \A e \in pending : e.timestamp >= now
              /\ (rate > 0 /\ pc = "loop") => Cardinality(pending) = 1
              /\ IF rate > 0
                 THEN /\ dispatched =>
                           /\ Cardinality(made) = 1
                           /\ \A i \in made : call.scheduled[i] \in pending
                      /\ (call.op = "event" /\ ~dispatched) => made = {}
                 ELSE pending = {} /\ made = {} /\ ~dispatched

\* a CANCEL_ARRIVAL after an earlier event, the next one of each of the three arrival
\* streams pending
C25_Witness ==
    /\ pc = "loop" /\ call.op = "event" /\ call.event.event_type = "CANCEL_ARRIVAL"
    /\ _event_count >= 2
    /\ \A t \in {"LIMIT_ARRIVAL", "MARKET_ARRIVAL", "CANCEL_ARRIVAL"} :
          \E e \in _events : e.event_type = t
    /\ \E e \in _events : e.event_type = "CANCEL_ARRIVAL" /\ e = call.scheduled[1]

(***************************************************************************)
(* What a turn does when there is nothing to trade with or to cancel       *)
(***************************************************************************)
\* C26: with quantity ranges from 1 up and quote_qty >= 1 no step of a run fails,
\* whatever the book holds: every order a step constructs passes the checks of
\* Order.__post_init__ and every turn ends in its snapshot; a market, impact or
\* adaptation order with no depth to face is dropped or not constructed at all,
\* never constructed with quantity 0; a cancel arrival with no FLOW order resting
\* does nothing; a refresh that cancels the id of a filled quote issues its pair all
\* the same; a collapsed clamp gives the fallback quote, bid below ask.
C26_NoStepFails ==
    [][(pc' \in {"loop", "done"} /\ call'.op \in {"setup", "event"}) =>
          LET log == call'
              Owned(owners) == {i \in DOMAIN log.orders : log.orders[i].owner \in owners}
              Built(o) ==
                  /\ o.qty >= 1
                  /\ IF o.order_type = LIMIT THEN o.price # None ELSE o.price = None
              Resting(b) == RestingOrders(b, BID) \cup RestingOrders(b, ASK)
              mid == PyOr(mid_price(book), _last_mid)
              \* the side a buy (signal > 0) or a sell has to face is empty before the step
              NoDepth(signal) ==
                  RestingOrders(book, IF signal > 0 THEN ASK ELSE BID) = {}
              Move == log.op = "event" /\ log.event.event_type = "FUNDAMENTAL_MOVE"
          IN /\ \A i \in DOMAIN log.orders : Built(log.orders[i])
             /\ log.op = "event" =>
                   /\ Len(snapshots') = Len(snapshots) + 1
                   /\ _event_count' = _event_count + 1
             /\ \A i \in DOMAIN log.orders :
                   log.orders[i].order_type = MARKET =>
                      \A r \in Resting(book') : r.order_id # log.orders[i].order_id
             /\ (Move /\ config.environment_mode = "v1_control"
                      /\ NoDepth(_fundamental_price' - _fundamental_price)) =>
                   Owned({"FUNDAMENTAL_IMPACT", "LATENT_MOVE"}) = {}
             /\ (Move /\ config.environment_mode = "v2_slow_adapt" /\ log.refresh_calls = 0
                      /\ _fundamental_price' # mid /\ NoDepth(_fundamental_price' - mid)) =>
                   ~log.adapt_applied /\ Owned({"FUND_ADAPT"}) = {} /\ book' = book
             /\ (log.op = "event" /\ log.event.event_type = "CANCEL_ARRIVAL"
                      /\ open_orders(book, "FLOW") = <<>>) =>
                   /\ log.cancels \subseteq market_maker.active_order_ids
                   /\ (log.refresh_calls = 0 /\ log.orders = <<>>) => book' = book
             /\ log.refresh_calls > 0 =>
                   /\ Cardinality(Owned({"MM"})) = 2 * log.refresh_calls
                   /\ log.quoted.bid < log.quoted.ask
    ]_vars

\* a FUNDAMENTAL_MOVE in v1_control that found no order to face and built no impact
\* order, in a turn whose refresh cancelled the id of a quote already filled
C26_Witness ==
    /\ pc = "loop" /\ call.op = "event" /\ call.event.event_type = "FUNDAMENTAL_MOVE"
    /\ config.environment_mode = "v1_control"
    /\ \A i \in DOMAIN call.orders : call.orders[i].owner = "MM"
    /\ call.refresh_calls > 0
    /\ \E j \in DOMAIN trades :
          /\ trades[j].maker_owner = "MM" /\ trades[j].maker_order_id \in call.cancels
          /\ trades[j].qty = config.market_maker.quote_qty

(***************************************************************************)
(* The book's indexes, trades and resting orders, under SpecBook           *)
(***************************************************************************)
\* C27: after every add_order and cancel each side's price index is strictly
\* ascending, holds a price exactly when the dict has a queue at that price, and
\* every queue is non-empty: a level whose orders were all matched or cancelled by
\* the call is gone from both, and best_bid, best_ask and top_depth see orders only.
C27_PriceIndex ==
    /\ \A side \in {BID, ASK} :
          LET bk == IF side = BID THEN book._bids ELSE book._asks
              levels == IF side = BID THEN book._bid_prices ELSE book._ask_prices
              was == IF side = BID THEN call.before._bids ELSE call.before._asks
          IN /\ \A i, j \in 1..Len(levels) : i < j => levels[i] < levels[j]
             /\ {levels[i] : i \in 1..Len(levels)} = DOMAIN bk
             /\ \A p \in DOMAIN bk : Len(bk[p]) > 0
             /\ call.op \in {"add_order", "cancel"} =>
                   \A p \in DOMAIN was :
                      (\A i \in 1..Len(was[p]) : IndexPos(book, was[p][i].order_id) = 0)
                         => /\ p \notin DOMAIN bk
                            /\ \A i \in 1..Len(levels) : levels[i] # p
    /\ best_bid(book) # None =>
          /\ best_bid(book) \in DOMAIN book._bids
          /\ top_depth(book)[1] > 0
          /\ \A p \in DOMAIN book._bids : p <= best_bid(book)
    /\ best_ask(book) # None =>
          /\ best_ask(book) \in DOMAIN book._asks
          /\ top_depth(book)[2] > 0
          /\ \A p \in DOMAIN book._asks : p >= best_ask(book)
    /\ top_depth(book)[1] = 0 <=> RestingOrders(book, BID) = {}
    /\ top_depth(book)[2] = 0 <=> RestingOrders(book, ASK) = {}

\* C27's case: a taker emptied the best level of a side that held two levels, one of
\* them reduced to a single order by an earlier cancel, and the other level is now the best
C27_Witness ==
    /\ call.op = "add_order" /\ Len(call.trades) > 0 /\ call.cancelled # {}
    /\ LET opp == opposite(call.order.side)
           was == IF opp = ASK THEN call.before._ask_prices ELSE call.before._bid_prices
           left == IF opp = ASK THEN book._ask_prices ELSE book._bid_prices
       IN /\ Len(was) = 2 /\ Len(left) = 1
          /\ call.trades[1].price # left[1]
          /\ \E i \in 1..2 : was[i] = left[1]

\* the orders in the queues of b, each with the side and price of its queue
Queued(b) ==
    LET Of(side, bk) ==
            UNION {{[order_id |-> bk[p][i].order_id, side |-> side, price |-> p,
                     order |-> bk[p][i]] : i \in 1..Len(bk[p])} : p \in DOMAIN bk}
    IN Of(BID, b._bids) \cup Of(ASK, b._asks)

\* C28: after every add_order and cancel the id index holds exactly the orders of
\* the queues, each once and with the side and price of its queue; a resting order
\* is a LIMIT order with its level's price and a quantity above 0; a maker filled to
\* zero by a call is in neither a queue nor the index afterwards.
C28_IdIndex ==
    LET index == book._order_index
    IN /\ \A i, j \in 1..Len(index) : index[i].order_id = index[j].order_id => i = j
       /\ {index[i] : i \in 1..Len(index)} = Queued(book)
       /\ Cardinality(Queued(book)) = Cardinality({e.order_id : e \in Queued(book)})
       /\ \A e \in Queued(book) :
             /\ e.order.order_type = LIMIT /\ e.order.qty > 0
             /\ e.order.price # None /\ e.order.price = e.price /\ e.order.side = e.side
       /\ call.op = "add_order" =>
             \A k \in 1..Len(call.trades) :
                LET id == call.trades[k].maker_order_id
                IN order_qty(call.before, id) = call.trades[k].qty =>
                      /\ IndexPos(book, id) = 0
                      /\ \A e \in Queued(book) : e.order_id # id

\* C28's case: a LIMIT taker filled one maker whole and another in part; the first
\* is gone, the second rests with what is left of it behind nothing, and the index
\* still holds an order on the taker's side
C28_Witness ==
    /\ call.op = "add_order" /\ call.order.order_type = LIMIT /\ Len(call.trades) = 2
    /\ IndexPos(book, call.trades[1].maker_order_id) = 0
    /\ IndexPos(book, call.trades[2].maker_order_id) > 0
    /\ \E e \in Queued(book) : e.side = call.order.side

\* C29: every trade of an add_order call is made at the price its maker rested at,
\* the maker resting on the side opposite to the taker; the trades of the call go
\* from the best opposing price outward, a level being reached only when every
\* better one is used up; a LIMIT taker never trades beyond its limit.
C29_TradePrices ==
    call.op = "add_order" =>
        LET ts == call.trades
            taker == call.order
            \* p is at least as good for the taker as q
            NoWorse(p, q) == IF taker.side = BID THEN p <= q ELSE p >= q
            makers == {e \in Queued(call.before) : e.side = opposite(taker.side)}
        IN /\ \A k \in 1..Len(ts) :
                 /\ ts[k].taker_side = taker.side /\ ts[k].taker_order_id = taker.order_id
                 /\ \E e \in makers :
                       /\ e.order_id = ts[k].maker_order_id
                       /\ e.price = ts[k].price /\ e.order.price = ts[k].price
                       /\ e.order.side # taker.side
                 /\ \A e \in Queued(call.before) :
                       e.order_id = ts[k].maker_order_id => e \in makers
                 /\ taker.order_type = LIMIT => NoWorse(ts[k].price, taker.price)
                 /\ \A e \in makers :
                       (e.price # ts[k].price /\ NoWorse(e.price, ts[k].price)) =>
                          /\ IndexPos(book, e.order_id) = 0
                          /\ \E j \in 1..(k - 1) : ts[j].maker_order_id = e.order_id
           /\ \A j, k \in 1..Len(ts) : j < k => NoWorse(ts[j].price, ts[k].price)

\* C29's case: a LIMIT bid that trades at two ask prices, the lower one first and
\* below its limit, with a third ask level beyond its limit left alone
C29_Witness ==
    /\ call.op = "add_order" /\ call.order.order_type = LIMIT /\ call.order.side = BID
    /\ Len(call.trades) >= 2
    /\ call.trades[1].price < call.trades[Len(call.trades)].price
    /\ call.trades[1].price < call.order.price
    /\ best_ask(book) # None /\ call.order.price < best_ask(book)

\* C30: after add_order of a LIMIT order the order rests exactly when part of it
\* is left; it then rests on its side at its limit price with the quantity left,
\* last in that level's queue behind the orders the level held; an order that does
\* not cross the opposing best price makes no trade, leaves the opposite side as it
\* was and rests whole.
C30_LimitRests ==
    (call.op = "add_order" /\ call.order.order_type = LIMIT) =>
        LET o == call.order
            left == call.left
            Side(b, side) == IF side = BID THEN <<b._bids, b._bid_prices>>
                                           ELSE <<b._asks, b._ask_prices>>
            own == Side(book, o.side)[1]
            own_before == Side(call.before, o.side)[1]
            held == IF o.price \in DOMAIN own_before THEN own_before[o.price] ELSE <<>>
            rests == \E e \in Queued(book) : e.order_id = o.order_id
            opp_best == IF o.side = BID THEN best_ask(call.before) ELSE best_bid(call.before)
            crosses == /\ opp_best # None
                       /\ IF o.side = BID THEN o.price >= opp_best ELSE o.price <= opp_best
        IN /\ rests <=> left.qty > 0
           /\ IndexPos(book, o.order_id) > 0 <=> left.qty > 0
           /\ left.qty = o.qty - SumTrades(call.trades)
           /\ left.qty > 0 =>
                 /\ o.price \in DOMAIN own
                 /\ own[o.price] = Append(held, [o EXCEPT !.qty = left.qty])
                 /\ \A p \in DOMAIN own_before : p # o.price => own[p] = own_before[p]
                 /\ DOMAIN own = DOMAIN own_before \cup {o.price}
                 /\ book._order_index[IndexPos(book, o.order_id)] =
                       [order_id |-> o.order_id, side |-> o.side, price |-> o.price,
                        order |-> [o EXCEPT !.qty = left.qty]]
           /\ left.qty = 0 => own = own_before
           /\ ~crosses =>
                 /\ call.trades = <<>> /\ left = o /\ rests
                 /\ Side(book, opposite(o.side)) = Side(call.before, opposite(o.side))

\* C30's case: a LIMIT order that does not cross joins, last, a level that held an
\* order already, the opposite side holding orders
C30_Witness ==
    /\ call.op = "add_order" /\ call.order.order_type = LIMIT /\ call.trades = <<>>
    /\ LET own == IF call.order.side = BID THEN book._bids ELSE book._asks
       IN /\ call.order.price \in DOMAIN own
          /\ Len(own[call.order.price]) >= 2
          /\ own[call.order.price][Len(own[call.order.price])].order_id = call.order.order_id
    /\ RestingOrders(book, opposite(call.order.side)) # {}

(***************************************************************************)
(* The agent's position, the moves of the fundamental price, the tags of   *)
(* the snapshots and the end of a run                                      *)
(***************************************************************************)
\* C31: every fill updates the position by weighted average cost.  A fill in the
\* position's direction (or from flat) adds to the inventory and makes the average
\* entry the quantity-weighted mean; an opposite fill closes min(|inventory|, qty),
\* books (price - entry) * closed for a long and (entry - price) * closed for a short,
\* and opens what is left of it at the fill price in the new direction; realized
\* P&L changes on position-reducing fills only; the entry is 0 whenever inventory is 0.
C31_WeightedAverageCost ==
    /\ market_maker.inventory = 0 => market_maker.avg_entry_price = RatInt(0)
    /\ call.op = "on_trade" =>
          LET was == call.before
              mm == market_maker
              t == call.trade
              sign == IF t.taker_owner = "MM"
                      THEN (IF t.taker_side = BID THEN 1 ELSE -1)
                      ELSE (IF t.taker_side = BID THEN -1 ELSE 1)
              same == was.inventory * sign >= 0
              closed == Min(Abs(was.inventory), t.qty)
              booked == RatSub(mm.realized_pnl, was.realized_pnl)
          IN /\ mm.inventory = was.inventory + sign * t.qty
             /\ same =>
                   /\ mm.realized_pnl = was.realized_pnl
                   /\ RatMulInt(mm.avg_entry_price, Abs(mm.inventory)) =
                         RatAdd(RatMulInt(was.avg_entry_price, Abs(was.inventory)),
                                RatInt(t.price * t.qty))
             /\ ~same =>
                   /\ booked = (IF was.inventory > 0
                                THEN RatMulInt(RatSub(RatInt(t.price), was.avg_entry_price),
                                               closed)
                                ELSE RatMulInt(RatSub(was.avg_entry_price, RatInt(t.price)),
                                               closed))
                   /\ t.qty > closed => mm.avg_entry_price = RatInt(t.price)
                   /\ t.qty < closed \/ Abs(was.inventory) > closed =>
                         mm.avg_entry_price = was.avg_entry_price
             /\ mm.realized_pnl # was.realized_pnl =>
                   (~same /\ Abs(mm.inventory) < Abs(was.inventory) + t.qty)

\* C31's case: a short of 4 sold at two prices, its entry their weighted mean and no
\* whole number of price units, is reduced by a buy of 1 that books a profit or a loss
C31_Witness ==
    /\ call.op = "on_trade"
    /\ call.before.inventory = -4 /\ market_maker.inventory = -3
    /\ call.before.avg_entry_price.den # 1
    /\ market_maker.avg_entry_price = call.before.avg_entry_price
    /\ market_maker.realized_pnl # call.before.realized_pnl

\* the impact order of a move of the fundamental price in v1_control, as the step
\* from the simulator's state shows it; Stated(case) holds when the step is no such
\* move or when case holds of: the orders the step built for the impact, the
\* quantity resting within the jump on the side they face (none when that side is
\* empty), the signal and the jump of the move, and the best price they face
ImpactStep(Case(_, _, _, _, _)) ==
    (/\ pc = "loop" /\ call'.op = "event"
     /\ call'.event.event_type \in {"FUNDAMENTAL_MOVE", "TOXIC_MOVE"}
     /\ config.environment_mode = "v1_control") =>
        LET tick == config.tick_size
            delta == _fundamental_price' - _fundamental_price
            signal == IF delta > 0 THEN 1 ELSE -1
            jump == Abs(delta) \div tick
            best == IF signal > 0 THEN best_ask(book) ELSE best_bid(book)
            facing == {e \in Queued(book) : e.side = (IF signal > 0 THEN ASK ELSE BID)}
            RECURSIVE Sum(_)
            Sum(es) == IF es = {} THEN 0
                       ELSE LET e == CHOOSE x \in es : TRUE IN e.order.qty + Sum(es \ {e})
            within == Sum({e \in facing : Abs(e.price - best) < jump * tick})
            built == SelectSeq(call'.orders,
                               LAMBDA o : o.owner \in {"FUNDAMENTAL_IMPACT", "LATENT_MOVE"})
        IN Case(built, within, signal, jump, best)

\* C32 as stated: the opposing side holding orders, the move submits one MARKET
\* order of at least 1 and at most the quantity within the jump, whatever the
\* impact fraction, and of exactly that quantity at a fraction of 1.
C32_ImpactAsStated ==
    [][ImpactStep(LAMBDA built, within, signal, jump, best :
          IF best = None THEN built = <<>>
          ELSE /\ Len(built) = 1
               /\ built[1].qty >= 1 /\ built[1].qty <= within
               /\ config.flow.toxic_impact_fraction >= 100 => built[1].qty = within)
    ]_vars

\* C32: in v1_control a move of the fundamental price with signal s and jump j
\* submits, when the opposing side holds orders and the impact fraction is above 0,
\* one MARKET order (BID for s = +1, ASK for s = -1), the first order of the turn,
\* of at least 1 and at most the quantity resting strictly within j ticks of the
\* best opposing price; at a fraction of 1 it is exactly that quantity, and the
\* order leaves the opposing side empty or its best price j ticks or more away in
\* direction s; no trade of the order is at or beyond best + j ticks; with an empty
\* opposing side or a fraction of 0 or less no order is submitted.
C32_ImmediateImpact ==
    [][ImpactStep(LAMBDA built, within, signal, jump, best :
          LET fraction == config.flow.toxic_impact_fraction
              after == add_order(book, built[1]).book
              moved == IF signal > 0 THEN best_ask(after) ELSE best_bid(after)
              mine == SelectSeq(SubSeq(trades', Len(trades) + 1, Len(trades')),
                                LAMBDA t : t.taker_order_id = built[1].order_id)
          IN /\ jump >= 1
             /\ IF best = None \/ fraction <= 0 THEN built = <<>>
                ELSE /\ Len(built) = 1 /\ built[1] = call'.orders[1]
                     /\ built[1].order_type = MARKET
                     /\ built[1].side = (IF signal > 0 THEN BID ELSE ASK)
                     /\ built[1].qty >= 1 /\ built[1].qty <= within
                     /\ SumTrades(mine) = built[1].qty
                     /\ \A k \in 1..Len(mine) :
                           signal * (mine[k].price - best) < jump * config.tick_size
                     /\ fraction >= 100 =>
                           /\ built[1].qty = within
                           /\ \/ moved = None
                              \/ signal * (moved - best) >= jump * config.tick_size)
    ]_vars

\* C32's case: a move of two ticks at a fraction of a half, facing two levels within
\* the jump, has sent an order smaller than the quantity of the two levels
C32_Witness ==
    /\ pc = "loop" /\ call.op = "event" /\ call.event.event_type = "FUNDAMENTAL_MOVE"
    /\ config.environment_mode = "v1_control" /\ config.flow.toxic_impact_fraction = 50
    /\ config.flow.fundamental_jump_ticks = 2
    /\ Len(call.orders) > 0 /\ call.orders[1].owner = "FUNDAMENTAL_IMPACT"
    /\ call.orders[1].qty = 2
    /\ \E k \in DOMAIN trades : trades[k].taker_owner = "FUNDAMENTAL_IMPACT"

\* C33: the fundamental price changes only in the turn that dispatches a
\* FUNDAMENTAL_MOVE or a TOXIC_MOVE, and then by signal * jump_ticks ticks, the jump
\* being 1 at least; every other step (arrivals, refreshes, adaptation orders,
\* fills) leaves it alone.  So the snapshots carry base_price at INIT and, from one
\* to the next, the signed jump of the move dispatched between them or no change;
\* every order built because of a move is a MARKET order without a price, and no
\* order but those of FLOW and MM rests in the book.
C33_FundamentalFrame ==
    [][LET tick == config.tick_size
           e == call'.event
           moved == /\ pc = "loop" /\ call'.op = "event"
                    /\ e.event_type \in {"FUNDAMENTAL_MOVE", "TOXIC_MOVE"}
           IsMove(snap) == snap.event_type[1] \in {"FUNDAMENTAL_MOVE", "TOXIC_MOVE"}
           snaps == snapshots'
       IN /\ IF moved
             THEN /\ {"signal", "jump_ticks"} \subseteq DOMAIN e.payload
                  /\ e.payload.jump_ticks >= 1
                  /\ _fundamental_price' - _fundamental_price =
                        (IF e.payload.signal >= 0 THEN 1 ELSE -1)
                           * e.payload.jump_ticks * tick
                  /\ snaps[Len(snaps)].fundamental_price = _fundamental_price'
             ELSE _fundamental_price' = _fundamental_price
          /\ Len(snaps) > 0 => snaps[1].fundamental_price = config.base_price
          /\ \A i \in 2..Len(snaps) :
                LET step == snaps[i].fundamental_price - snaps[i - 1].fundamental_price
                IN IF IsMove(snaps[i])
                   THEN step % tick = 0 /\ Abs(step) >= tick
                   ELSE step = 0
          /\ pc' \in {"loop", "done"} =>
                \A i \in DOMAIN call'.orders :
                   call'.orders[i].owner \in {"FUNDAMENTAL_IMPACT", "LATENT_MOVE", "FUND_ADAPT"}
                      => call'.orders[i].order_type = MARKET /\ call'.orders[i].price = None
          /\ \A r \in Queued(book') : r.order.owner \in {"FLOW", "MM"}
    ]_vars

\* C33's case: a cancel arrival dispatched after a move of the fundamental price has
\* left the price where the move put it, away from base_price
C33_Witness ==
    /\ pc = "loop" /\ call.op = "event" /\ call.event.event_type = "CANCEL_ARRIVAL"
    /\ Len(snapshots) >= 3
    /\ _fundamental_price # config.base_price
    /\ snapshots[Len(snapshots)].fundamental_price = _fundamental_price
    /\ snapshots[Len(snapshots) - 1].event_type[1] = "FUNDAMENTAL_MOVE"

\* C34: the snapshot of a turn is tagged with the type of the event dispatched,
\* then MM_REFRESH exactly when the turn refreshed the agent's quotes, then
\* FUND_ADAPT exactly when the turn submitted a slow-adaptation order; the orders of
\* the refresh come before that of the adaptation and the snapshot shows the book
\* after both; events_since_mm_refresh is 0 exactly in the snapshots tagged
\* MM_REFRESH and in INIT.
C34_SnapshotTags ==
    [][LET snaps == snapshots'
           Has(tag, mark) == \E k \in 2..Len(tag) : tag[k] = mark
       IN /\ \A i \in 1..Len(snaps) :
                /\ snaps[i].events_since_mm_refresh = 0 <=>
                      (snaps[i].event_type = <<"INIT">> \/ Has(snaps[i].event_type, "MM_REFRESH"))
                /\ i > 1 => snaps[i].event_type[1] # "INIT"
          /\ (pc = "loop" /\ call'.op = "event") =>
                LET log == call'
                    snap == snaps[Len(snaps)]
                    tag == snap.event_type
                    refreshed == log.refresh_calls > 0
                    adapted == \E i \in DOMAIN log.orders : log.orders[i].owner = "FUND_ADAPT"
                IN /\ Len(snaps) = Len(snapshots) + 1
                   /\ tag = <<log.event.event_type>>
                              \o (IF refreshed THEN <<"MM_REFRESH">> ELSE <<>>)
                              \o (IF adapted THEN <<"FUND_ADAPT">> ELSE <<>>)
                   /\ refreshed <=> _last_mm_refresh_event' = _event_count'
                   /\ \A i, j \in DOMAIN log.orders :
                         (log.orders[i].owner = "MM" /\ log.orders[j].owner = "FUND_ADAPT")
                            => i < j
                   /\ snap.best_bid = best_bid(book') /\ snap.best_ask = best_ask(book')
                   /\ snap.top_bid_depth = top_depth(book')[1]
                   /\ snap.top_ask_depth = top_depth(book')[2]
                   /\ snap.mm_inventory = market_maker'.inventory
    ]_vars

\* C34's case: a turn that refreshed the quotes and then sent an adaptation order,
\* in a run with an earlier snapshot of a turn that did neither
C34_Witness ==
    /\ pc = "loop" /\ call.op = "event" /\ Len(snapshots) >= 3
    /\ Len(snapshots[Len(snapshots)].event_type) = 3
    /\ snapshots[Len(snapshots)].event_type[2] = "MM_REFRESH"
    /\ snapshots[Len(snapshots)].event_type[3] = "FUND_ADAPT"
    /\ \E i \in 2..(Len(snapshots) - 1) :
          /\ Len(snapshots[i].event_type) = 1
          /\ snapshots[i].events_since_mm_refresh > 0

(***************************************************************************)
(* The end of a run.  The runs of SpecLive are those of configurations     *)
(* whose horizon holds no more than MaxEvents arrivals, every inter-       *)
(* arrival time being one unit at least: the guard on _event_count then    *)
(* never ends a run, and a run ends as run() ends it.  run() is one        *)
(* thread that goes on as long as it has a step to take: weak fairness of  *)
(* its steps, WF_vars(LiveNext).  A step is enabled exactly until run()    *)
(* has returned (Running, which C35 checks), and every step that changes   *)
(* the state is a step of LiveNext, so the fairness condition is written   *)
(* with these two in the place of ENABLED <<LiveNext>>_vars and of         *)
(* <<LiveNext>>_vars.                                                      *)
(***************************************************************************)
LiveConfigs ==
    {SeedConfig, QuietConfig, ControlConfig, ImpactConfig, SlowConfig,
     [LegacyConfig EXCEPT !.end_time = 1]}

LiveInit ==
    \E cfg \in LiveConfigs :
        LET s == NewSimulator(cfg, 0, 0) IN
        /\ SimIs(s)
        /\ call = s.log
        /\ pc = "init"

LiveNext ==
    \/ RunSeedBook
    \/ RunFirstQuotes
    \/ LimitArrival
    \/ MarketArrival
    \/ CancelArrival
    \/ FundamentalMove
    \/ MmQuoteUpdate
    \/ BeyondHorizon
    \/ Drained

\* run() has a step to take: it has not returned, and the loop has either an event to
\* handle with the guard on _event_count open, or an end to come to
Running ==
    /\ pc \in {"init", "seeded", "loop"}
    /\ (pc = "loop" /\ _events # {} /\ ~Expired(HeapMin(_events), config.end_time))
          => _event_count < MaxEvents

SpecLive ==
    /\ LiveInit
    /\ [][LiveNext]_vars
    /\ ([]<>(pc = "done") \/ []<><<TRUE>>_vars)

\* C35: every run ends: with inter-arrival times of one unit at least and a finite
\* end_time the loop comes to an empty heap or to an event beyond the horizon, having
\* handled no more events than the horizon has room for, and run() returns; with
\* every arrival rate and the fundamental rate at 0 or less and K > 0 nothing is ever
\* scheduled, and the run ends with the INIT snapshot alone and no trade.
C35_RunTerminates ==
    /\ (pc = "init") ~> (pc = "done")
    /\ [](pc = "done" =>
            \/ _events = {} /\ call.op = "drained"
            \/ call.op = "break" /\ Expired(call.event, config.end_time))
    /\ [](pc # "done" => Running)
    /\ [](pc = "loop" => (now <= config.end_time /\ _event_count <= 4 * config.end_time))
    /\ []((/\ pc \in {"loop", "done"}
           /\ config.flow.limit_rate <= 0 /\ config.flow.market_rate <= 0
           /\ config.flow.cancel_rate <= 0 /\ config.flow.fundamental_rate <= 0
           /\ config.mm_update_every_k_events > 0) =>
              /\ _events = {} /\ _seq = 0
              /\ Len(snapshots) = 1 /\ snapshots[1].event_type = <<"INIT">>
              /\ trades = <<>>)

\* C35's case: a run that handled the three arrivals its horizon had room for and
\* left the loop on an event beyond the horizon, others still waiting in the heap
C35_Witness ==
    /\ pc = "done" /\ call.op = "break"
    /\ _event_count = 3 /\ Len(snapshots) = 4
    /\ _events # {}

\* C36: the handler of a CANCEL_ARRIVAL takes at most one order out of the book, an
\* order of FLOW that rests when the event is dispatched, and no order of MM; with
\* no FLOW order resting it leaves the book as it is; it makes no trade and leaves
\* the agent as it is.  In a turn with no refresh and no adaptation order the book,
\* the trades and the agent at the end of the turn are those the handler has left.
C36_CancelArrival ==
    [][(pc = "loop" /\ call'.op = "event" /\ call'.event.event_type = "CANCEL_ARRIVAL") =>
          LET e == call'.event
              log == call'
              \* the simulator as line 85 finds it, and as the handler leaves it
              Entered == [Popped(Sim, e) EXCEPT
                             !.now = e.timestamp, !._event_count = @ + 1,
                             !.log = [EmptyLog EXCEPT !.op = "event", !.event = e]]
              Frame(s0, s1) ==
                  LET was == Queued(s0.book)
                      gone == was \ Queued(s1.book)
                  IN /\ Queued(s1.book) \subseteq was
                     /\ Cardinality(gone) <= 1
                     /\ \A r \in gone : r.order.owner = "FLOW"
                     /\ {r.order_id : r \in gone} = s1.log.cancels
                     /\ (\A r \in was : r.order.owner # "FLOW") => s1.book = s0.book
                     /\ (\E r \in was : r.order.owner = "FLOW") => Cardinality(gone) = 1
                     /\ s1 = [s0 EXCEPT !.book = s1.book, !.log.cancels = s1.log.cancels]
                     /\ s0.book = book /\ s0.trades = trades
                     /\ s0.market_maker = market_maker
                     /\ (log.refresh_calls = 0 /\ log.orders = <<>>) =>
                           /\ book' = s1.book /\ trades' = trades
                           /\ market_maker' = market_maker
                     /\ s1.log.cancels \subseteq log.cancels
          IN Frame(Entered, _handle_cancel_arrival(Entered, log.draws[1]))
    ]_vars

\* C36's case: a turn cancelled three ids, the agent's two quotes at its refresh and,
\* before that, the FLOW order the cancel arrival took; other FLOW orders rest
C36_Witness ==
    /\ pc = "loop" /\ call.op = "event" /\ call.event.event_type = "CANCEL_ARRIVAL"
    /\ Cardinality(call.cancels) = 3 /\ call.refresh_calls = 1
    /\ \E r \in Queued(book) : r.order.owner = "FLOW"
    /\ \E r \in Queued(book) : r.order.owner = "MM"

\* the adaptation order of a turn, as the step from the simulator's state shows it;
\* Case holds of the order, of the quantity resting at the best price it faces, of
\* the gap between the fundamental price and the mid and of that best price, all as
\* line 113 finds them, and of the trades the order made
AdaptStep(Case(_, _, _, _, _)) ==
    (pc = "loop" /\ call'.op = "event") =>
        LET log == call'
            e == log.event
            d == log.draws
            adapt == SelectSeq(log.orders, LAMBDA o : o.owner = "FUND_ADAPT")
            mine == SelectSeq(SubSeq(trades', Len(trades) + 1, Len(trades')),
                              LAMBDA t : t.taker_owner = "FUND_ADAPT")
            \* the simulator once the event is handled and the quotes are refreshed
            At(ids) == CounterRefresh(HandleEvent(Popped(Sim, e), e, [d[1] EXCEPT !.ids = ids]),
                                      [d[2] EXCEPT !.ids = ids])
            Facing(s, o) ==
                LET best == IF o.side = BID THEN best_ask(s.book) ELSE best_bid(s.book)
                    level == {r \in Queued(s.book) : r.side # o.side /\ r.price = best}
                    RECURSIVE Sum(_)
                    Sum(rs) == IF rs = {} THEN 0
                               ELSE LET r == CHOOSE x \in rs : TRUE
                                    IN r.order.qty + Sum(rs \ {r})
                IN Case(o, Sum(level),
                        s._fundamental_price - PyOr(mid_price(s.book), s._last_mid),
                        best, mine)
        IN /\ Len(adapt) <= 1
           /\ Len(adapt) = 1 <=> log.adapt_applied
           /\ Len(adapt) = 0 => mine = <<>>
           /\ Len(adapt) = 1 =>
                 /\ config.environment_mode = "v2_slow_adapt"
                 /\ adapt[1] = log.orders[Len(log.orders)]
                 /\ \A ids \in Orderings(market_maker.active_order_ids) :
                       Facing(At(ids), adapt[1])

\* C37 as stated: the quantity of the adaptation order is no more than
\* slow_adapt_max_qty * min(5, gap in ticks), the gap taken at its full length.
C37_AdaptAsStated ==
    [][AdaptStep(LAMBDA o, level, gap, best, mine :
          o.qty * config.tick_size
             <= config.flow.slow_adapt_max_qty * Min(5 * config.tick_size, Abs(gap)))
    ]_vars

\* C37: an order of owner FUND_ADAPT is submitted in v2_slow_adapt only, once a turn
\* at most and as the turn's last order, when the fundamental price is a tick or
\* more from the mid; it is a MARKET order, a BID exactly when the fundamental is
\* above the mid, of 1 at least, of no more than the quantity resting at the best
\* opposing price and of no more than max(1, slow_adapt_max_qty) * min(5, gap in
\* whole ticks); all it trades it trades at that best price, and it is filled whole.
C37_SlowAdaptation ==
    [][AdaptStep(LAMBDA o, level, gap, best, mine :
          LET tick == config.tick_size
          IN /\ Abs(gap) >= tick
             /\ o.order_type = MARKET /\ o.price = None
             /\ o.side = BID <=> gap > 0
             /\ o.qty >= 1 /\ o.qty <= level
             /\ o.qty <= Max(1, config.flow.slow_adapt_max_qty) * Min(5, Abs(gap) \div tick)
             /\ best # None
             /\ \A k \in 1..Len(mine) :
                   mine[k].price = best /\ mine[k].taker_order_id = o.order_id
             /\ SumTrades(mine) = o.qty)
    ]_vars

\* C37's case: the agent's quote of 3 is all that rests at the best price, the gap
\* of two ticks would allow 8, and the adaptation order has taken the 3 and no more
C37_Witness ==
    /\ pc = "loop" /\ call.op = "event" /\ call.adapt_applied
    /\ config.flow.slow_adapt_max_qty = 4
    /\ call.orders[Len(call.orders)].owner = "FUND_ADAPT"
    /\ call.orders[Len(call.orders)].qty = 3
    /\ trades[Len(trades)].taker_owner = "FUND_ADAPT"
    /\ trades[Len(trades)].maker_owner = "MM" /\ trades[Len(trades)].qty = 3

\* C38: in every run no trade has the agent on both sides, so on_trade, which books
\* one side of a trade, never leaves a fill of the agent out; the maker of every
\* trade is an order of FLOW or of MM, the only owners whose orders rest, and the
\* taker is never the maker's own order.
C38_NoSelfTrade ==
    /\ \A k \in 1..Len(trades) :
          /\ ~(trades[k].taker_owner = "MM" /\ trades[k].maker_owner = "MM")
          /\ trades[k].maker_owner \in {"FLOW", "MM"}
          /\ trades[k].taker_order_id # trades[k].maker_order_id
    /\ \A r \in Queued(book) : r.order.owner \in {"FLOW", "MM"}
    /\ pc \in {"loop", "done"} =>
          LET Mine(k) == trades[k].taker_owner = "MM" \/ trades[k].maker_owner = "MM"
          IN Len(market_maker.fills) = Cardinality({k \in 1..Len(trades) : Mine(k)})

\* C38's case: the agent has traded as taker, its quote crossing a FLOW order, and as
\* maker, and one of its quotes rests
C38_Witness ==
    /\ pc = "loop"
    /\ \E k \in 1..Len(trades) :
          trades[k].taker_owner = "MM" /\ trades[k].maker_owner = "FLOW"
    /\ \E k \in 1..Len(trades) : trades[k].maker_owner = "MM"
    /\ \E r \in Queued(book) : r.order.owner = "MM"

====
